---- MODULE Spec2Model ----
(***************************************************************************)
(* Guarded query-planning and execution pipeline of the agent service      *)
(* (src/agent/main.py): run_agent -> run_analysis_pipeline ->              *)
(* plan_and_run_sql_with_limits, with the pure helpers build_fixed_plan_   *)
(* for_question, is_safe_sql, analyze_sql_shape, normalize_sql_for_        *)
(* postgres and enforce_sql_limits.                                        *)
(*                                                                         *)
(* Text is modelled as a sequence of one-character strings, so that the    *)
(* substring tests, regular expressions and str methods of the source are  *)
(* computed on the characters.  The back-quote character is written        *)
(* "<bt>".  Python's None is written None (for text) or NoError.           *)
(***************************************************************************)
EXTENDS Integers, Sequences, FiniteSets, TLC

(***************************************************************************)
(* State of one agent process.                                             *)
(***************************************************************************)
VARIABLES
    USE_LLM,         \* bool(OPENAI_API_KEY), fixed when the process starts
    pc,              \* where the request being served stands
    question,        \* req.question
    plan,            \* run_analysis_pipeline: plan
    item,            \* index in plan of the PlanItem being run
    attempt,         \* plan_and_run_sql_with_limits: the loop variable
    previous_sql,    \* feedback: the rejected statement
    previous_issue,  \* feedback: why it was rejected
    sql,             \* the candidate of the current attempt
    query_results,   \* run_analysis_pipeline: query_results
    response,        \* what run_agent returned or raised
    gen_calls,       \* calls of decide_sql for the current PlanItem
    llm_calls,       \* completion-service calls of the request
    store_calls,     \* store transactions of the request
    last_executed,   \* the statement last passed to db_mcp_tool
    last_returned,   \* what that call of db_mcp_tool did: its rows, or raised
    last_content,    \* decide_sql: chat.choices[0].message.content of the last call
    prompt_columns,  \* decide_sql: the schema put in the prompt of the last call
    report_payload,  \* generate_report_with_llm: payload
    tx_events,       \* store and completion-service events of the last step
    db_columns,      \* the store: column types of the table faturamento
    \* the ingestion watcher (src/etl)
    etl_pc,          \* where main and run_etl_for_file stand
    inbox,           \* names of the .xlsx files in inbox_dir
    polls,           \* iterations of the while loop of main so far
    novos,           \* main: the files of this poll not yet processed
    passed,          \* files given to run_etl_for_file in this poll
    job,             \* run_etl_for_file: arquivo_nome, status_job, rows_imported,
                     \* error_message
    pending,         \* rows inserted in the open transaction
    table_columns,   \* names of the columns of the table faturamento
    faturamento,     \* committed rows of the table, counted by arquivo_nome
    etl_jobs,        \* rows of the table etl_jobs, oldest first
    \* the batch runner (src/agent/utils.py)
    bq_pc,           \* where run_queries stands
    bq_queries,      \* its argument
    bq_index,        \* position of q in queries
    bq_sql,          \* run_queries: sql
    bq_results,      \* run_queries: results
    bq_executed      \* the statements given to db_mcp_tool by this call

agent_vars ==
    << USE_LLM, pc, question, plan, item, attempt, previous_sql, previous_issue,
       sql, query_results, response, gen_calls, llm_calls, store_calls,
       last_executed, last_returned, last_content, prompt_columns, report_payload,
       tx_events, db_columns >>

etl_vars ==
    << etl_pc, inbox, polls, novos, passed, job, pending, table_columns,
       faturamento, etl_jobs >>

batch_vars == << bq_pc, bq_queries, bq_index, bq_sql, bq_results, bq_executed >>

vars == << agent_vars, etl_vars, batch_vars >>

(***************************************************************************)
(* Program constants (src/agent/main.py:41-43).                            *)
(***************************************************************************)
MAX_COLS == 30
MAX_ROWS == 100
MAX_SQL_ATTEMPTS == 3

(***************************************************************************)
(* Bounds of the model: the largest row count and column count the store   *)
(* returns for one statement.                                              *)
(***************************************************************************)
MaxTableRows == 101
MaxTableCols == 31

(***************************************************************************)
(* Python str primitives.                                                  *)
(***************************************************************************)
None == <<"None">>

Whitespace == {" ", "\n", "\t"}

DigitChars == <<"0", "1", "2", "3", "4", "5", "6", "7", "8", "9">>

UpperChars == <<"A", "B", "C", "D", "E", "F", "G", "H", "I", "J", "K", "L", "M",
                "N", "O", "P", "Q", "R", "S", "T", "U", "V", "W", "X", "Y", "Z", "Ó">>

LowerChars == <<"a", "b", "c", "d", "e", "f", "g", "h", "i", "j", "k", "l", "m",
                "n", "o", "p", "q", "r", "s", "t", "u", "v", "w", "x", "y", "z", "ó">>

Range(f) == {f[i] : i \in DOMAIN f}

SetMin(S) == CHOOSE x \in S : \A y \in S : x <= y

SetMax(S) == CHOOSE x \in S : \A y \in S : x >= y

IsDigit(c) == c \in {"0", "1", "2", "3", "4", "5", "6", "7", "8", "9"}

\* \s of the re module
IsSpace(c) == c \in Whitespace

\* \w of the re module (str patterns: letters, digits, underscore)
WordChars == Range(UpperChars) \cup Range(LowerChars) \cup Range(DigitChars) \cup {"_"}

IsWordCh(c) == c \in WordChars

LowerOf == [c \in Range(UpperChars) |->
               LowerChars[CHOOSE i \in DOMAIN UpperChars : UpperChars[i] = c]] @@ <<>>

lower_ch(c) == IF c \in DOMAIN LowerOf THEN LowerOf[c] ELSE c

\* str.lower()
lower(s) == [i \in 1..Len(s) |-> lower_ch(s[i])]

\* the literal lit occurs in s at position i
HasAt(s, i, lit) ==
    /\ i >= 1
    /\ i + Len(lit) - 1 <= Len(s)
    /\ \A k \in 1..Len(lit) : s[i + k - 1] = lit[k]

\* lit in s
Contains(s, lit) == \E i \in 1..(Len(s) + 1) : HasAt(s, i, lit)

\* str.startswith
startswith(s, lit) == HasAt(s, 1, lit)

\* \b of the re module between s[i-1] and s[i]
WordBoundary(s, i) ==
    LET before == i > 1 /\ i - 1 <= Len(s) /\ IsWordCh(s[i - 1])
        after == i >= 1 /\ i <= Len(s) /\ IsWordCh(s[i])
    IN before # after

\* str.strip()
strip(s) ==
    LET idx == {i \in 1..Len(s) : ~IsSpace(s[i])}
    IN IF idx = {} THEN <<>> ELSE SubSeq(s, SetMin(idx), SetMax(idx))

\* str.rstrip(ch) for a one-character argument
rstrip_ch(s, ch) ==
    LET idx == {i \in 1..Len(s) : s[i] # ch}
    IN IF idx = {} THEN <<>> ELSE SubSeq(s, 1, SetMax(idx))

\* the index of the first character at or after i that is not white space
SkipSpace(s, i) ==
    LET idx == {j \in i..Len(s) : ~IsSpace(s[j])}
    IN IF idx = {} THEN Len(s) + 1 ELSE SetMin(idx)

\* the index after the run of digits that starts at i
SkipDigits(s, i) ==
    LET idx == {j \in i..Len(s) : ~IsDigit(s[j])}
    IN IF idx = {} THEN Len(s) + 1 ELSE SetMin(idx)

DigitValue(c) == (CHOOSE i \in DOMAIN DigitChars : DigitChars[i] = c) - 1

\* int(text) of a non-empty run of digits
ParseInt(ds) ==
    LET value[k \in 0..Len(ds)] ==
            IF k = 0 THEN 0 ELSE 10 * value[k - 1] + DigitValue(ds[k])
    IN value[Len(ds)]

\* f"{n}" of a natural number
FormatInt(n) ==
    LET digits[m \in 0..n] ==
            IF m < 10 THEN <<DigitChars[m + 1]>>
            ELSE digits[m \div 10] \o <<DigitChars[(m % 10) + 1]>>
    IN digits[n]

(***************************************************************************)
(* Plan Builder: build_fixed_plan_for_question.                            *)
(***************************************************************************)
\* re.search(r"\b20\d{2}\b", q_lower) is not None
mentions_year(q_lower) ==
    \E i \in 1..Len(q_lower) :
        /\ WordBoundary(q_lower, i)
        /\ HasAt(q_lower, i, <<"2", "0">>)
        /\ i + 3 <= Len(q_lower)
        /\ IsDigit(q_lower[i + 2])
        /\ IsDigit(q_lower[i + 3])
        /\ WordBoundary(q_lower, i + 4)

mentions_report(q_lower) ==
    \/ Contains(q_lower, <<"r", "e", "l", "a", "t", "ó", "r", "i", "o">>)
    \/ Contains(q_lower, <<"r", "e", "l", "a", "t", "o", "r", "i", "o">>)

broad_how_was(q_lower) == Contains(q_lower, <<"c", "o", "m", "o", " ", "f", "o", "i">>)

\* variant: the broad phrase alone, or a year alone, makes a report
is_year_report_Either(asked) ==
    LET q_lower == lower(asked)
    IN mentions_report(q_lower) \/ broad_how_was(q_lower) \/ mentions_year(q_lower)

is_year_report(asked) ==
    LET q_lower == lower(asked)
    IN mentions_report(q_lower) \/ (broad_how_was(q_lower) /\ mentions_year(q_lower))

\* variant: the simple plan carries the lower-cased question
SimplePlan_Lowered(asked) ==
    << [id |-> "q1",
        title |-> "Pergunta principal",
        question |-> lower(asked),
        goal |-> "Responder diretamente à pergunta do usuário"] >>

SimplePlan(asked) ==
    << [id |-> "q1",
        title |-> "Pergunta principal",
        question |-> asked,
        goal |-> "Responder diretamente à pergunta do usuário"] >>

\* the three fixed items; each sub-question is the sequence of the string
\* literals the source concatenates
ReportPlan ==
    << [id |-> "q1",
        title |-> "Visão geral mensal do faturamento",
        question |-> << "Calcule, para o ano de 2024, o faturamento total por mês, ",
                        "incluindo quantidade de notas, soma de valor_bruto, soma de valor_liquido, ",
                        "soma de valor_imposto e ticket_medio_estimado médio por mês." >>,
        goal |-> "Entender a evolução mensal do faturamento em 2024."],
       [id |-> "q2",
        title |-> "Faturamento por status do título",
        question |-> << "Para o ano de 2024, agrupe por status_titulo e retorne, por status, ",
                        "a quantidade de notas e a soma de valor_liquido." >>,
        goal |-> "Entender quanto está faturado por status (pago, aberto, vencido, etc.)."],
       [id |-> "q3",
        title |-> "Faturamento por cluster ou segmento de cliente",
        question |-> << "Para o ano de 2024, agrupe por cluster_cliente ou segmento_cliente ",
                        "(o que existir na tabela) e retorne a quantidade de notas e a soma de valor_liquido. ",
                        "Se existirem as duas colunas, prefira agrupar por cluster_cliente." >>,
        goal |-> "Entender concentração de receita por perfil de cliente em 2024."] >>

\* variant: the report plan lacks its third item
build_fixed_plan_TwoItems(asked) ==
    IF ~is_year_report(asked) THEN SimplePlan(asked) ELSE SubSeq(ReportPlan, 1, 2)

build_fixed_plan_for_question(asked) ==
    IF ~is_year_report(asked) THEN SimplePlan(asked) ELSE ReportPlan

\* the questions the plan builder is computed on: a wording, then a year
QuestionWordings ==
    { <<>>,
      <<"C", "o", "m", "o", " ", "f", "o", "i", " ">>,
      <<"C", "O", "M", "O", " ", "F", "O", "I", " ", "o", " ", "a", "n", "o", " ", "d", "e", " ">>,
      <<"r", "e", "l", "a", "t", "ó", "r", "i", "o", " ">>,
      <<"R", "e", "l", "a", "t", "o", "r", "i", "o", "s", " ", "d", "e", " ">>,
      <<"Q", "u", "a", "n", "t", "o", " ", "f", "a", "t", "u", "r", "e", "i", " ", "e", "m", " ">>,
      <<"r", "e", "s", "u", "m", "o", " ">> }

QuestionYears ==
    { <<>>,
      <<"2", "0", "2", "4">>,
      <<"1", "9", "9", "9">>,
      <<"2", "1", "0", "0">>,
      <<"1", "2", "0", "2", "4">>,
      <<"2", "0", "2", "4", "5">>,
      <<"a", "2", "0", "2", "4">>,
      <<"2", "0", "2", "4", ",">> }

PlanQuestions == {wording \o year : wording \in QuestionWordings, year \in QuestionYears}

\* len(build_fixed_plan_for_question(q))
PlanSizeOf == [q \in PlanQuestions |-> Len(build_fixed_plan_for_question(q))] @@ <<>>

(***************************************************************************)
(* Safety Validator: is_safe_sql.                                          *)
(***************************************************************************)
\* variant: a statement is refused only for a forbidden word
is_safe_sql_Denylist(stmt) ==
    LET s == lower(strip(stmt))
    IN ~Contains(s, <<"d", "r", "o", "p">>)

\* sql.strip().lower().startswith("select")
is_safe_sql(stmt) ==
    LET s == lower(strip(stmt))
    IN startswith(s, <<"s", "e", "l", "e", "c", "t">>)

(***************************************************************************)
(* Shape Analyzer: analyze_sql_shape.                                      *)
(***************************************************************************)
AggregateNames ==
    { <<"s", "u", "m">>, <<"a", "v", "g">>, <<"c", "o", "u", "n", "t">>,
      <<"m", "i", "n">>, <<"m", "a", "x">> }

\* re.search(r"\b(sum|avg|count|min|max)\s*\(", s)
has_aggregate_fn(s) ==
    \E i \in 1..Len(s) : \E name \in AggregateNames :
        /\ WordBoundary(s, i)
        /\ HasAt(s, i, name)
        /\ LET j == SkipSpace(s, i + Len(name))
           IN j <= Len(s) /\ s[j] = "("

has_group_by(s) == Contains(s, <<"g", "r", "o", "u", "p", " ", "b", "y">>)

\* the positions where r"\blimit\s+(\d+)" matches
LimitMatches(s) ==
    { i \in 1..Len(s) :
        /\ WordBoundary(s, i)
        /\ HasAt(s, i, <<"l", "i", "m", "i", "t">>)
        /\ i + 5 <= Len(s)
        /\ IsSpace(s[i + 5])
        /\ LET j == SkipSpace(s, i + 5)
           IN j <= Len(s) /\ IsDigit(s[j]) }

\* int(m.group(1)) of the leftmost match
LimitValue(s) ==
    LET i == SetMin(LimitMatches(s))
        j == SkipSpace(s, i + 5)
    IN ParseInt(SubSeq(s, j, SkipDigits(s, j) - 1))

NoLimitValue == -1

analyze_sql_shape(stmt) ==
    LET s == lower(stmt)
        has_limit == LimitMatches(s) # {}
    IN [has_aggregate |-> has_aggregate_fn(s) \/ has_group_by(s),
        has_limit |-> has_limit,
        limit_value |-> IF has_limit THEN LimitValue(s) ELSE NoLimitValue]

(***************************************************************************)
(* Dialect normalization: normalize_sql_for_postgres.                      *)
(***************************************************************************)
\* the character class [a-zA-Z0-9_",.\s]
IsRollupColCh(c) ==
    \/ (IsWordCh(c) /\ c \notin {"Ó", "ó"})
    \/ c \in {",", "."}
    \/ IsSpace(c)

\* the ways r"group\s+by\s+([a-zA-Z0-9_\",.\s]+?)\s+with\s+rollup" (IGNORECASE)
\* matches at position i: gs..ge is group 1, end the index after the match
RollupMatchesAt(stmt, i) ==
    LET s == lower(stmt)
        a == SkipSpace(s, i + 5)
        b == SkipSpace(s, a + 2)
    IN IF /\ HasAt(s, i, <<"g", "r", "o", "u", "p">>)
          /\ a > i + 5
          /\ HasAt(s, a, <<"b", "y">>)
          /\ b > a + 2
       THEN { m \in [gs : (a + 3)..b, ge : (a + 3)..Len(s)] :
                /\ m.gs <= m.ge
                /\ \A k \in m.gs..m.ge : IsRollupColCh(stmt[k])
                /\ LET w == SkipSpace(s, m.ge + 1)
                       r == SkipSpace(s, w + 4)
                   IN /\ w > m.ge + 1
                      /\ HasAt(s, w, <<"w", "i", "t", "h">>)
                      /\ r > w + 4
                      /\ HasAt(s, r, <<"r", "o", "l", "l", "u", "p">>) }
       ELSE {}

\* the match the engine returns: the greedy \s+ before group 1 first, then
\* the shortest group 1
RollupMatchAt(stmt, i) ==
    LET ms == RollupMatchesAt(stmt, i)
        gs == SetMax({m.gs : m \in ms})
        ge == SetMin({m.ge : m \in {n \in ms : n.gs = gs}})
        w == SkipSpace(stmt, ge + 1)
        r == SkipSpace(stmt, w + 4)
    IN [gs |-> gs, ge |-> ge, end |-> r + 6]

\* repl_rollup
repl_rollup(stmt, m) ==
    LET cols == rstrip_ch(strip(SubSeq(stmt, m.gs, m.ge)), ",")
    IN <<"G", "R", "O", "U", "P", " ", "B", "Y", " ", "R", "O", "L", "L", "U", "P", " ", "(">>
       \o cols \o <<")">>

\* pattern_rollup.sub(repl_rollup, sql): fixed[i] is the result from
\* position i on
normalize_sql_for_postgres(stmt) ==
    LET fixed[i \in 1..(Len(stmt) + 1)] ==
            IF i > Len(stmt) THEN <<>>
            ELSE IF RollupMatchesAt(stmt, i) # {}
                 THEN LET m == RollupMatchAt(stmt, i)
                      IN repl_rollup(stmt, m) \o fixed[m.end]
                 ELSE <<stmt[i]>> \o fixed[i + 1]
    IN fixed[1]

(***************************************************************************)
(* Executor guard: enforce_sql_limits.                                     *)
(***************************************************************************)
\* re.search(r"\blimit\b", s_lower)
has_limit_word(s_lower) ==
    \E i \in 1..Len(s_lower) :
        /\ WordBoundary(s_lower, i)
        /\ HasAt(s_lower, i, <<"l", "i", "m", "i", "t">>)
        /\ WordBoundary(s_lower, i + 5)

enforce_sql_limits(stmt) ==
    LET sql_clean == rstrip_ch(strip(stmt), ";")
        s_lower == lower(sql_clean)
    IN IF has_limit_word(s_lower)
       THEN sql_clean \o <<";">>
       ELSE sql_clean \o <<" ", "L", "I", "M", "I", "T", " ">> \o FormatInt(MAX_ROWS) \o <<";">>

(***************************************************************************)
(* Query Synthesizer: the part of decide_sql after the completion call.    *)
(***************************************************************************)
\* str.splitlines() of a text that does not end in a line break:
\* from[i] is the lines of the text from position i on
splitlines(s) ==
    LET from[i \in 1..(Len(s) + 1)] ==
            LET idx == {j \in i..Len(s) : s[j] = "\n"}
            IN IF idx = {} THEN <<SubSeq(s, i, Len(s))>>
               ELSE <<SubSeq(s, i, SetMin(idx) - 1)>> \o from[SetMin(idx) + 1]
    IN IF Len(s) = 0 THEN <<>> ELSE from[1]

\* "\n".join(lines)
join_lines(lines) ==
    LET joined[k \in 0..Len(lines)] ==
            IF k = 0 THEN <<>>
            ELSE IF k = 1 THEN lines[1]
            ELSE joined[k - 1] \o <<"\n">> \o lines[k]
    IN joined[Len(lines)]

Fence == <<"<bt>", "<bt>", "<bt>">>

\* the statement decide_sql returns for the content of the completion
decide_sql(content) ==
    LET stripped == strip(content)
    IN IF startswith(stripped, Fence)
       THEN LET lines1 == Tail(splitlines(stripped))
                lines2 == IF Len(lines1) > 0 /\ startswith(strip(lines1[Len(lines1)]), Fence)
                          THEN SubSeq(lines1, 1, Len(lines1) - 1)
                          ELSE lines1
            IN strip(join_lines(lines2))
       ELSE stripped

(***************************************************************************)
(* Inputs: the questions a caller sends and the contents the completion    *)
(* service returns.                                                        *)
(***************************************************************************)
Q_faturei == <<"Q", "u", "a", "n", "t", "o", " ", "f", "a", "t", "u", "r", "e", "i", " ", "e", "m", " ", "2", "0", "2", "4", "?">>

Q_relatorio == <<"R", "e", "l", "a", "t", "ó", "r", "i", "o", " ", "2", "0", "2", "4">>

Q_como_foi == <<"C", "o", "m", "o", " ", "f", "o", "i", "?">>

Questions == {Q_faturei, Q_relatorio, Q_como_foi}

C_raw_limit == <<"S", "E", "L", "E", "C", "T", " ", "*", " ", "F", "R", "O", "M", " ", "f", " ", "L", "I", "M", "I", "T", " ", "1", "0", "0">>

C_sum == <<"S", "E", "L", "E", "C", "T", " ", "S", "U", "M", "(", "v", ")", " ", "A", "S", " ", "t", "o", "t", "a", "l", " ", "F", "R", "O", "M", " ", "f">>

C_drop == <<"D", "R", "O", "P", " ", "T", "A", "B", "L", "E", " ", "f", "a", "t", "u", "r", "a", "m", "e", "n", "t", "o", ";">>

C_raw == <<"s", "e", "l", "e", "c", "t", " ", "a", " ", "f", "r", "o", "m", " ", "f">>

C_multi == <<"S", "E", "L", "E", "C", "T", " ", "1", ";", " ", "D", "R", "O", "P", " ", "T", "A", "B", "L", "E", " ", "f", ";", " ", "S", "E", "L", "E", "C", "T", " ", "1", " ", "L", "I", "M", "I", "T", " ", "1">>

C_empty == <<>>

C_fenced_rollup == <<"<bt>", "<bt>", "<bt>", "s", "q", "l", "\n", "S", "E", "L", "E", "C", "T", " ", "a", ",", " ", "c", "o", "u", "n", "t", " ", "(", "*", ")", " ", "F", "R", "O", "M", " ", "f", "\n", "G", "R", "O", "U", "P", " ", "B", "Y", " ", "a", " ", "W", "I", "T", "H", " ", "R", "O", "L", "L", "U", "P", "\n", "<bt>", "<bt>", "<bt>">>

C_limit_all == <<"S", "E", "L", "E", "C", "T", " ", "a", " ", "F", "R", "O", "M", " ", "f", " ", "L", "I", "M", "I", "T", " ", "A", "L", "L">>

Contents ==
    { C_raw_limit, C_sum, C_drop, C_raw, C_multi, C_empty, C_fenced_rollup,
      C_limit_all }

\* the contents returned for the fixed sub-questions of a report, which ask
\* for aggregates by name
ReportContents == {C_raw_limit, C_sum, C_drop}

CompletionsFor(sub_q) ==
    IF \E i \in DOMAIN ReportPlan : ReportPlan[i].question = sub_q
    THEN ReportContents
    ELSE Contents

(***************************************************************************)
(* The statement of an attempt: decide_sql, then normalize_sql_for_        *)
(* postgres, then enforce_sql_limits.  The tables hold, for the statements *)
(* the inputs lead to, what the helpers compute.                           *)
(***************************************************************************)
Candidate(content) ==
    enforce_sql_limits(normalize_sql_for_postgres(decide_sql(content)))

CandidateOf == [c \in Contents |-> Candidate(c)] @@ <<>>

Statements == {CandidateOf[c] : c \in Contents}

SafeOf == [stmt \in Statements |-> is_safe_sql(stmt)] @@ <<>>

ShapeOf == [stmt \in Statements |-> analyze_sql_shape(stmt)] @@ <<>>

\* normalize_sql_for_postgres leaves the statement as it is
NormalizedOf ==
    [stmt \in Statements |-> normalize_sql_for_postgres(stmt) = stmt] @@ <<>>

\* analyze_sql_shape of what decide_sql returned, before the two rewrites
GeneratedShapeOf == [c \in Contents |-> analyze_sql_shape(decide_sql(c))] @@ <<>>

NoError == "None"

NoIssue == [kind |-> "none", num_cols |-> 0, num_rows |-> 0]

NoRows == [n |-> 0, w |-> 0]

NoResponse ==
    [kind |-> "none", status |-> 0, answer |-> "", debug_sql |-> None, detail |-> ""]

UnsafeDetail == "A consulta gerada pela IA foi considerada insegura."

ExhaustedDetail ==
    "Não foi possível gerar uma consulta SQL que respeitasse o limite de no máximo 30 colunas e 100 linhas após várias tentativas."

AllFailedDetail ==
    "Nenhuma consulta SQL pôde ser executada com sucesso para o plano de análise."

PipelineErrorDetail == "Erro no pipeline de análise com o agente de IA"

UnavailableMessage ==
    "Desculpe, o módulo de IA não está disponível no momento, então não consigo gerar uma resposta baseada nos seus dados. Tente novamente mais tarde ou habilite a OPENAI_API_KEY."

\* build_answer: the fallback notice
build_answer ==
    "Os dados foram consultados no banco com sucesso, mas o módulo de IA que gera a resposta em linguagem natural não está disponível no momento. Tente novamente mais tarde."

\* the texts the completion service returns as prose
Narratives == {"<narrative>"}

HttpError(status, detail) ==
    [kind |-> "http_error", status |-> status, answer |-> "", debug_sql |-> None,
     detail |-> detail]

AgentResponse(answer, debug_sql) ==
    [kind |-> "answer", status |-> 200, answer |-> answer, debug_sql |-> debug_sql,
     detail |-> ""]

(***************************************************************************)
(* The store: what executing a statement can return.  A result is its      *)
(* number of rows n and the number of columns w of each row.               *)
(***************************************************************************)
RowCounts == {0, 1, MAX_ROWS, MaxTableRows}

ColCounts == {MAX_COLS, MaxTableCols}

\* the row bound the store applies: the number after the last LIMIT keyword
StoreLimit(stmt) ==
    LET s == lower(stmt)
        ms == LimitMatches(s)
    IN IF ms = {} THEN MaxTableRows
       ELSE LET j == SkipSpace(s, SetMax(ms) + 5)
            IN ParseInt(SubSeq(s, j, SkipDigits(s, j) - 1))

StoreResults(stmt) ==
    LET limit == StoreLimit(stmt)
    IN { [n |-> k, w |-> c] : k \in {x \in RowCounts : x <= limit}, c \in ColCounts }

StoreResultsOf == [stmt \in Statements |-> StoreResults(stmt)] @@ <<>>

\* the outcomes of a call of db_mcp_tool
NoCall == [kind |-> "none", rows |-> NoRows, width |-> 0]

Raised == [kind |-> "raised", rows |-> NoRows, width |-> 0]

\* [dict(r) for r in rows]: a list without rows has no columns either
RowsOf(result) == IF result.n = 0 THEN NoRows ELSE result

\* the list db_mcp_tool returned, and the number of columns the statement
\* selected
Returned(result) == [kind |-> "rows", rows |-> RowsOf(result), width |-> result.w]

\* len(rows)
NumRows(result) == result.n

\* variant: the columns are counted on the result set, not on its first row
NumCols_Selected(result) == result.w

\* len(rows[0]) if rows else 0: the first row has one key for each column
\* selected, and without a first row nothing is counted
NumCols(result) == IF result.n > 0 THEN result.w ELSE 0

(***************************************************************************)
(* The table faturamento as introspection sees it: the data types of its   *)
(* columns, in ordinal position.  The ingestion process adds columns.      *)
(***************************************************************************)
ColumnTypes == {"text", "numeric"}

\* get_column_samples: text_types
text_types == {"character varying", "text", "varchar", "char"}

InitialColumns == <<"text", "numeric", "text">>

\* the ingestion process stops adding columns at this many
MaxColumns == 4

\* no prompt was built yet in this request
NoPrompt == <<"<none>">>

\* no completion was received yet in this request
NoContent == <<"<no completion>">>

(***************************************************************************)
(* Store transactions and completion-service calls, as the events of one   *)
(* step: "begin" and "commit" or "rollback" are the entry and the exit of  *)
(* a with engine.begin() block, "stmt" is a conn.execute inside it, "llm"  *)
(* is a call of client.chat.completions.create.                            *)
(***************************************************************************)
\* get_table_schema
SchemaTx == <<"begin", "stmt", "commit">>

\* get_column_samples: one block around the loop, one statement for each
\* column of a text type
SamplesTx(schema) ==
    LET text_cols == {k \in DOMAIN schema : schema[k] \in text_types}
    IN <<"begin">> \o [k \in 1..Cardinality(text_cols) |-> "stmt"] \o <<"commit">>

\* variant: the connection is not released when the block is left
ExecuteTx_HeldOpen == <<"begin", "stmt">>

\* db_mcp_tool
ExecuteTx == <<"begin", "stmt", "commit">>

\* a with engine.begin() block left by an exception
RaisedTx == <<"begin", "stmt", "rollback">>

CompletionCall == <<"llm">>

\* decide_sql: schema, samples, completion
DecideSqlEvents(schema) == SchemaTx \o SamplesTx(schema) \o CompletionCall

\* where decide_sql can raise
DecideSqlStages == {"schema", "samples", "completion", "content"}

DecideSqlRaisedEvents(stage, schema) ==
    IF stage = "schema" THEN RaisedTx
    ELSE IF stage = "samples" THEN SchemaTx \o RaisedTx
    ELSE DecideSqlEvents(schema)

(***************************************************************************)
(* generate_report_with_llm: the payload given to the completion service.  *)
(***************************************************************************)
NoPayload == [user_question |-> None, plan |-> <<>>, queries |-> <<>>]

\* one element of payload["queries"]
PayloadEntry(qr) ==
    [id |-> qr.id, title |-> qr.title, goal |-> qr.goal,
     subquestion |-> qr.subquestion, sql |-> qr.sql,
     total_rows |-> qr.total_rows, rows |-> qr.rows, error |-> qr.error]

\* variant: only the accepted results are put in the payload
PayloadQueries_AcceptedOnly(results) ==
    LET accepted == SelectSeq(results, LAMBDA qr : qr.error = NoError)
    IN [k \in DOMAIN accepted |-> PayloadEntry(accepted[k])]

\* payload["queries"] after the loop over query_results
PayloadQueries(results) == [k \in DOMAIN results |-> PayloadEntry(results[k])]

ReportPayload(asked, items, results) ==
    [user_question |-> asked, plan |-> items, queries |-> PayloadQueries(results)]

(***************************************************************************)
(* The ingestion watcher: src/etl/main.py (src/etl/loader.py and           *)
(* src/etl/db.py hold the same functions).  A file is its name; the sheet  *)
(* in it is fixed.                                                         *)
(***************************************************************************)
\* len(df) of the sheet of each file that can appear in inbox_dir
SheetRows == [f \in {"a.xlsx", "vazio.xlsx"} |-> IF f = "a.xlsx" THEN 2 ELSE 0]

\* df.columns of the sheet of a file
SheetColumns ==
    [f \in DOMAIN SheetRows |-> IF f = "a.xlsx" THEN {"valor", "regiao"} ELSE {"valor"}]

\* the while loop of main is followed for this many iterations
MaxPolls == 2

\* the locals of run_etl_for_file when it is entered
NewJob(f) ==
    [arquivo_nome |-> f, status_job |-> "success", rows_imported |-> 0,
     error_message |-> "None"]

(***************************************************************************)
(* The batch runner: src/agent/utils.py, with the limits of                *)
(* src/agent/config.py.                                                    *)
(***************************************************************************)
CONFIG_MAX_ROWS == 10000

CONFIG_MAX_COLS == 30

\* utils.is_safe_sql
utils_is_safe_sql(stmt) ==
    startswith(lower(strip(stmt)), <<"s", "e", "l", "e", "c", "t">>)

\* utils.enforce_sql_limits: "limit" in sql_clean.lower() is a substring test
utils_enforce_sql_limits(stmt) ==
    LET sql_clean == rstrip_ch(strip(stmt), ";")
    IN IF Contains(lower(sql_clean), <<"l", "i", "m", "i", "t">>)
       THEN sql_clean \o <<";">>
       ELSE sql_clean \o <<" ", "L", "I", "M", "I", "T", " ">>
               \o FormatInt(CONFIG_MAX_ROWS) \o <<";">>

\* the lists given to run_queries hold at most this many queries
MaxQueries == 3

\* the lists of queries given to run_queries, each query as
\* llm_generate_queries builds it: an id and a non-empty text "sql"
BatchInputs ==
    LET statements ==
            { <<"S", "E", "L", "E", "C", "T", " ", "a", " ", "F", "R", "O", "M", " ", "f">>,
              <<"D", "R", "O", "P", " ", "T", "A", "B", "L", "E", " ", "f", ";">>,
              <<"s", "e", "l", "e", "c", "t", " ", "l", "i", "m", "i", "t", "e", " ",
                "f", "r", "o", "m", " ", "f">> }
    IN UNION { { [i \in 1..k |-> [id |-> i, sql |-> stmts[i]]] : stmts \in [1..k -> statements] }
               : k \in 0..MaxQueries }

\* {**q, "rows": ..., "error": ...}
BatchResult(q, rows, error) == [id |-> q.id, sql |-> q.sql, rows |-> rows, error |-> error]

Init ==
    /\ USE_LLM \in BOOLEAN
    /\ pc = "idle"
    /\ question = None
    /\ plan = <<>>
    /\ item = 0
    /\ attempt = 0
    /\ previous_sql = None
    /\ previous_issue = NoIssue
    /\ sql = None
    /\ query_results = <<>>
    /\ response = NoResponse
    /\ gen_calls = 0
    /\ llm_calls = 0
    /\ store_calls = 0
    /\ last_executed = None
    /\ last_returned = NoCall
    /\ last_content = NoContent
    /\ prompt_columns = NoPrompt
    /\ report_payload = NoPayload
    /\ tx_events = <<>>
    /\ db_columns = InitialColumns
    /\ etl_pc = "sleep"
    /\ inbox = {}
    /\ polls = 0
    /\ novos = {}
    /\ passed = <<>>
    /\ job = NewJob("")
    /\ pending = 0
    /\ table_columns = {"valor"}
    /\ faturamento = [f \in DOMAIN SheetRows |-> 0]
    /\ etl_jobs = <<>>
    /\ bq_pc = "idle"
    /\ bq_queries = <<>>
    /\ bq_index = 0
    /\ bq_sql = None
    /\ bq_results = <<>>
    /\ bq_executed = <<>>

(***************************************************************************)
(* Retry Controller: plan_and_run_sql_with_limits, and the plan loop of    *)
(* run_analysis_pipeline around it.                                        *)
(***************************************************************************)
\* variant: the sampling rule fires only above the cap
IsSamplingArtifact_AboveCap(shape, num_rows) ==
    (~shape.has_aggregate) /\ shape.has_limit /\ num_rows > MAX_ROWS

\* (not has_aggregate) and has_limit and num_rows == MAX_ROWS
IsSamplingArtifact(shape, num_rows) ==
    (~shape.has_aggregate) /\ shape.has_limit /\ num_rows = MAX_ROWS

\* variant: the column bound is not tested
WithinLimits_RowsOnly(num_rows, num_cols) == num_rows <= MAX_ROWS

\* num_rows <= MAX_ROWS and num_cols <= MAX_COLS
WithinLimits(num_rows, num_cols) == num_rows <= MAX_ROWS /\ num_cols <= MAX_COLS

\* variant: the loop runs once more
HasNextAttempt_OneMore(n) == n < MAX_SQL_ATTEMPTS + 1

\* the for loop has another iteration after this one
HasNextAttempt(n) == n < MAX_SQL_ATTEMPTS

SampleIssue == [kind |-> "sample", num_cols |-> 0, num_rows |-> 0]

\* variant: the two counts change places in the feedback
LargeIssue_Swapped(num_cols, num_rows) ==
    [kind |-> "too_large", num_cols |-> num_rows, num_rows |-> num_cols]

\* previous_issue of a result over the limits: the text with its two counts
LargeIssue(num_cols, num_rows) ==
    [kind |-> "too_large", num_cols |-> num_cols, num_rows |-> num_rows]

\* item.get("question") or question
SubQuestion(plan_item, q) ==
    IF Len(plan_item.question) > 0 THEN plan_item.question ELSE q

\* variant: the statement kept for the feedback is the one recorded
SuccessResult_Stale(plan_item, q, stmt, rows) ==
    [id |-> plan_item.id, title |-> plan_item.title, goal |-> plan_item.goal,
     subquestion |-> SubQuestion(plan_item, q),
     sql |-> IF previous_sql # None THEN previous_sql ELSE stmt,
     total_rows |-> NumRows(rows), rows |-> rows, error |-> NoError]

\* the dictionary appended after plan_and_run_sql_with_limits returned
SuccessResult(plan_item, q, stmt, rows) ==
    [id |-> plan_item.id, title |-> plan_item.title, goal |-> plan_item.goal,
     subquestion |-> SubQuestion(plan_item, q), sql |-> stmt,
     total_rows |-> NumRows(rows), rows |-> rows, error |-> NoError]

ErrorResult(plan_item, q, detail) ==
    [id |-> plan_item.id, title |-> plan_item.title, goal |-> plan_item.goal,
     subquestion |-> SubQuestion(plan_item, q), sql |-> None,
     total_rows |-> 0, rows |-> NoRows, error |-> detail]

\* variant: the test after the plan loop is made for reports only
AllFailed_ReportsOnly(results) ==
    Len(results) > 1 /\ \A i \in DOMAIN results : results[i].error # NoError

\* variant: the test after the plan loop is missing
AllFailed_Never(results) == FALSE

\* all(r["error"] is not None for r in query_results)
AllFailed(results) == \A i \in DOMAIN results : results[i].error # NoError

\* the locals of plan_and_run_sql_with_limits when no call of it is active
NoAttempt ==
    /\ attempt' = 0
    /\ previous_sql' = None
    /\ previous_issue' = NoIssue
    /\ sql' = None
    /\ gen_calls' = 0

\* truth value of an optional text
Truthy(t) == t # None /\ Len(t) > 0

NoFeedback == [sql |-> None, issue |-> NoIssue]

\* decide_sql: what feedback_block holds; it stays empty unless both
\* previous_sql and previous_issue are given
feedback_block(prev_sql, prev_issue) ==
    IF Truthy(prev_sql) /\ prev_issue # NoIssue
    THEN [sql |-> prev_sql, issue |-> prev_issue]
    ELSE NoFeedback

\* variant: the feedback of the item before is still there
StartItem_KeepsFeedback(i) ==
    /\ item' = i
    /\ attempt' = 1
    /\ UNCHANGED <<previous_sql, previous_issue>>
    /\ sql' = None
    /\ gen_calls' = 0
    /\ pc' = "generate"

\* a call plan_and_run_sql_with_limits(sub_q) for plan item i begins
StartItem(i) ==
    /\ item' = i
    /\ attempt' = 1
    /\ previous_sql' = None
    /\ previous_issue' = NoIssue
    /\ sql' = None
    /\ gen_calls' = 0
    /\ pc' = "generate"

\* variant: the plan loop does not catch the failure of an item
RecordResult_Propagates(qr) ==
    IF qr.error # NoError
    THEN /\ NoAttempt
         /\ pc' = "done"
         /\ response' = HttpError(500, qr.error)
         /\ UNCHANGED <<item, query_results>>
    ELSE LET results == Append(query_results, qr)
         IN /\ query_results' = results
            /\ IF item < Len(plan)
               THEN StartItem(item + 1) /\ response' = response
               ELSE /\ NoAttempt
                    /\ item' = item
                    /\ pc' = "narrate"
                    /\ response' = response

\* variant: the result is put in front of the earlier ones
RecordResult_Prepends(qr) ==
    LET results == <<qr>> \o query_results
    IN /\ query_results' = results
       /\ IF item < Len(plan)
          THEN StartItem(item + 1) /\ response' = response
          ELSE /\ NoAttempt
               /\ item' = item
               /\ IF AllFailed(results)
                  THEN pc' = "done" /\ response' = HttpError(500, AllFailedDetail)
                  ELSE pc' = "narrate" /\ response' = response

\* the plan loop appends qr and goes on: the next item, or the end of
\* run_analysis_pipeline
RecordResult(qr) ==
    LET results == Append(query_results, qr)
    IN /\ query_results' = results
       /\ IF item < Len(plan)
          THEN StartItem(item + 1) /\ response' = response
          ELSE /\ NoAttempt
               /\ item' = item
               /\ IF AllFailed(results)
                  THEN pc' = "done" /\ response' = HttpError(500, AllFailedDetail)
                  ELSE pc' = "narrate" /\ response' = response

\* an exception that is not an HTTPException leaves run_analysis_pipeline;
\* run_agent turns it into a 500
AbortPipeline ==
    /\ NoAttempt
    /\ pc' = "done"
    /\ response' = HttpError(500, PipelineErrorDetail)
    /\ UNCHANGED <<item, query_results>>

\* variant: a rejected attempt ends the loop
RejectAttempt_NoRetry(issue) ==
    RecordResult(ErrorResult(plan[item], question, ExhaustedDetail))

\* variant: the loop goes round without counting the attempt
RejectAttempt_KeepsAttempt(issue) ==
    /\ attempt' = attempt
    /\ previous_sql' = sql
    /\ previous_issue' = issue
    /\ pc' = "generate"
    /\ UNCHANGED <<sql, item, query_results, response, gen_calls>>

\* the attempt was rejected with this feedback: loop, or leave the loop
RejectAttempt(issue) ==
    IF HasNextAttempt(attempt)
    THEN /\ attempt' = attempt + 1
         /\ previous_sql' = sql
         /\ previous_issue' = issue
         /\ pc' = "generate"
         /\ UNCHANGED <<sql, item, query_results, response, gen_calls>>
    ELSE RecordResult(ErrorResult(plan[item], question, ExhaustedDetail))

\* variant: run_agent does not test USE_LLM before the pipeline
RunAgentUnavailable_NoShortCircuit(q) ==
    /\ pc = "idle"
    /\ ~USE_LLM
    /\ question' = q
    /\ plan' = build_fixed_plan_for_question(q)
    /\ query_results' = <<>>
    /\ StartItem(1)
    /\ UNCHANGED <<USE_LLM, response, llm_calls, store_calls, last_executed,
                   last_returned>>
    /\ tx_events' = <<>>
    /\ UNCHANGED <<last_content, prompt_columns, report_payload, db_columns>>
    /\ UNCHANGED <<etl_vars, batch_vars>>

(***************************************************************************)
(* run_agent without the completion service.                               *)
(***************************************************************************)
RunAgentUnavailable(q) ==
    /\ pc = "idle"
    /\ ~USE_LLM
    /\ question' = q
    /\ response' = AgentResponse(UnavailableMessage, None)
    /\ pc' = "done"
    /\ UNCHANGED <<USE_LLM, plan, item, attempt, previous_sql, previous_issue, sql,
                   query_results, gen_calls, llm_calls, store_calls, last_executed,
                   last_returned>>
    /\ tx_events' = <<>>
    /\ UNCHANGED <<last_content, prompt_columns, report_payload, db_columns>>
    /\ UNCHANGED <<etl_vars, batch_vars>>

(***************************************************************************)
(* run_agent: the plan is built and the first PlanItem starts.             *)
(***************************************************************************)
RunAgentStart(q) ==
    /\ pc = "idle"
    /\ USE_LLM
    /\ question' = q
    /\ plan' = build_fixed_plan_for_question(q)
    /\ query_results' = <<>>
    /\ StartItem(1)
    /\ UNCHANGED <<USE_LLM, response, llm_calls, store_calls, last_executed,
                   last_returned>>
    /\ tx_events' = <<>>
    /\ UNCHANGED <<last_content, prompt_columns, report_payload, db_columns>>
    /\ UNCHANGED <<etl_vars, batch_vars>>

\* variant: the schema read by the first call of the request is kept
PromptSchema_Cached ==
    IF prompt_columns # NoPrompt THEN prompt_columns ELSE db_columns

\* decide_sql: schema = get_table_schema(table_name), read in every call
PromptSchema == db_columns

\* variant: the statement goes to db_mcp_tool without the is_safe_sql test
Generate_SkipsValidation(content) ==
    /\ pc = "generate"
    /\ USE_LLM
    /\ gen_calls' = gen_calls + 1
    /\ store_calls' = store_calls + 2
    /\ llm_calls' = llm_calls + 1
    /\ content \in CompletionsFor(SubQuestion(plan[item], question))
    /\ prompt_columns' = PromptSchema
    /\ last_content' = content
    /\ sql' = CandidateOf[content]
    /\ tx_events' = DecideSqlEvents(db_columns)
    /\ pc' = "execute"
    /\ UNCHANGED <<USE_LLM, question, plan, item, attempt, previous_sql,
                   previous_issue, query_results, response, last_executed,
                   last_returned, report_payload, db_columns>>
    /\ UNCHANGED <<etl_vars, batch_vars>>

(***************************************************************************)
(* GENERATE: decide_sql reads schema and samples, calls the completion     *)
(* service, and the statement is normalized and limited.                   *)
(***************************************************************************)
Generate(content) ==
    /\ pc = "generate"
    /\ USE_LLM
    /\ gen_calls' = gen_calls + 1
    /\ store_calls' = store_calls + 2
    /\ llm_calls' = llm_calls + 1
    /\ content \in CompletionsFor(SubQuestion(plan[item], question))
    /\ prompt_columns' = PromptSchema
    /\ last_content' = content
    /\ sql' = CandidateOf[content]
    /\ tx_events' = DecideSqlEvents(db_columns)
    /\ pc' = "validate"
    /\ UNCHANGED <<USE_LLM, question, plan, item, attempt, previous_sql,
                   previous_issue, query_results, response, last_executed,
                   last_returned, report_payload, db_columns>>
    /\ UNCHANGED <<etl_vars, batch_vars>>

\* decide_sql raises: the schema read, the sample read or the completion
\* call failed, or the completion's content is None and content.strip()
\* raises AttributeError
GenerateRaises(stage) ==
    /\ pc = "generate"
    /\ store_calls' = store_calls + (IF stage = "schema" THEN 1 ELSE 2)
    /\ llm_calls' = llm_calls + (IF stage \in {"completion", "content"} THEN 1 ELSE 0)
    /\ prompt_columns' =
           IF stage \in {"completion", "content"} THEN PromptSchema ELSE prompt_columns
    /\ last_content' = IF stage = "content" THEN None ELSE NoContent
    /\ tx_events' = DecideSqlRaisedEvents(stage, db_columns)
    /\ AbortPipeline
    /\ UNCHANGED <<USE_LLM, question, plan, last_executed,
                   last_returned, report_payload, db_columns>>
    /\ UNCHANGED <<etl_vars, batch_vars>>

\* variant: an unsafe statement is rejected like a result that is too large
Validate_RetriesUnsafe ==
    /\ pc = "validate"
    /\ IF ~SafeOf[sql]
       THEN RejectAttempt(NoIssue)
       ELSE /\ pc' = "execute"
            /\ UNCHANGED <<item, attempt, previous_sql, previous_issue, sql,
                           query_results, response, gen_calls>>
    /\ UNCHANGED <<USE_LLM, question, plan, llm_calls, store_calls, last_executed,
                   last_returned>>
    /\ tx_events' = <<>>
    /\ UNCHANGED <<last_content, prompt_columns, report_payload, db_columns>>
    /\ UNCHANGED <<etl_vars, batch_vars>>

(***************************************************************************)
(* VALIDATE: an unsafe statement raises HTTPException(400), which the plan *)
(* loop records as the item's error.                                       *)
(***************************************************************************)
Validate ==
    /\ pc = "validate"
    /\ IF ~SafeOf[sql]
       THEN RecordResult(ErrorResult(plan[item], question, UnsafeDetail))
       ELSE /\ pc' = "execute"
            /\ UNCHANGED <<item, attempt, previous_sql, previous_issue, sql,
                           query_results, response, gen_calls>>
    /\ UNCHANGED <<USE_LLM, question, plan, llm_calls, store_calls, last_executed,
                   last_returned>>
    /\ tx_events' = <<>>
    /\ UNCHANGED <<last_content, prompt_columns, report_payload, db_columns>>
    /\ UNCHANGED <<etl_vars, batch_vars>>

(***************************************************************************)
(* EXECUTE and ANALYZE_RESULT: db_mcp_tool returns rows, and the attempt   *)
(* is accepted or rejected.                                                *)
(***************************************************************************)
Execute(result) ==
    /\ pc = "execute"
    /\ result \in StoreResultsOf[sql]
    /\ store_calls' = store_calls + 1
    /\ last_executed' = sql
    /\ last_returned' = Returned(result)
    /\ LET shape == ShapeOf[sql]
           rows == RowsOf(result)
           num_rows == NumRows(result)
           num_cols == NumCols(result)
       IN IF IsSamplingArtifact(shape, num_rows)
          THEN RejectAttempt(SampleIssue)
          ELSE IF WithinLimits(num_rows, num_cols)
               THEN RecordResult(SuccessResult(plan[item], question, sql, rows))
               ELSE RejectAttempt(LargeIssue(num_cols, num_rows))
    /\ tx_events' = ExecuteTx
    /\ UNCHANGED <<USE_LLM, question, plan, llm_calls, last_content, prompt_columns,
                   report_payload, db_columns>>
    /\ UNCHANGED <<etl_vars, batch_vars>>

\* db_mcp_tool raises
ExecuteRaises ==
    /\ pc = "execute"
    /\ store_calls' = store_calls + 1
    /\ last_executed' = sql
    /\ last_returned' = Raised
    /\ AbortPipeline
    /\ tx_events' = RaisedTx
    /\ UNCHANGED <<USE_LLM, question, plan, llm_calls, last_content, prompt_columns,
                   report_payload, db_columns>>
    /\ UNCHANGED <<etl_vars, batch_vars>>

(***************************************************************************)
(* Answer Synthesizer: the second half of run_agent.  A text put together  *)
(* from titles, details and statements is the sequence of its pieces.      *)
(***************************************************************************)
\* variant: a failed item adds no block
DebugBlock_AcceptedOnly(qr) ==
    IF Truthy(qr.sql)
    THEN << <<"-- ", qr.title, "\n">> \o qr.sql >>
    ELSE <<>>

\* one element of debug_blocks, or nothing
DebugBlock(qr) ==
    IF Truthy(qr.sql)
    THEN << <<"-- ", qr.title, "\n">> \o qr.sql >>
    ELSE IF qr.error # NoError
         THEN << <<"-- ", qr.title, " (erro)\n-- ", qr.error>> >>
         ELSE <<>>

\* debug_blocks after the loop over query_results
DebugBlocks(results) ==
    LET blocks[k \in 0..Len(results)] ==
            IF k = 0 THEN <<>> ELSE blocks[k - 1] \o DebugBlock(results[k])
    IN blocks[Len(results)]

\* "\n\n".join(debug_blocks)
JoinBlocks(blocks) ==
    LET joined[k \in 0..Len(blocks)] ==
            IF k = 0 THEN <<>>
            ELSE IF k = 1 THEN blocks[1]
            ELSE joined[k - 1] \o <<"\n\n">> \o blocks[k]
    IN joined[Len(blocks)]

ReportDebugSql(results) ==
    LET debug_blocks == DebugBlocks(results)
    IN IF Len(debug_blocks) > 0 THEN JoinBlocks(debug_blocks) ELSE None

\* the except branch of run_agent
FallbackResponse ==
    IF Len(plan) = 1
    THEN AgentResponse(build_answer, query_results[1].sql)
    ELSE AgentResponse(build_answer, None)

\* the payload of this request's prose call: only generate_report_with_llm
\* builds one
SentPayload ==
    IF Len(plan) = 1
    THEN NoPayload
    ELSE ReportPayload(question, plan, query_results)

\* the completion service returns prose
Narrate(text) ==
    /\ pc = "narrate"
    /\ IF Len(plan) = 1
       THEN IF query_results[1].error # NoError
            THEN /\ response' = FallbackResponse
                 /\ llm_calls' = llm_calls
                 /\ tx_events' = <<>>
            ELSE /\ response' = AgentResponse(text, query_results[1].sql)
                 /\ llm_calls' = llm_calls + 1
                 /\ tx_events' = CompletionCall
       ELSE /\ response' = AgentResponse(text, ReportDebugSql(query_results))
            /\ llm_calls' = llm_calls + 1
            /\ tx_events' = CompletionCall
    /\ report_payload' = SentPayload
    /\ pc' = "done"
    /\ UNCHANGED <<USE_LLM, question, plan, item, attempt, previous_sql,
                   previous_issue, sql, query_results, gen_calls, store_calls,
                   last_executed,
                   last_returned, last_content, prompt_columns, db_columns>>
    /\ UNCHANGED <<etl_vars, batch_vars>>

\* variant: the failure of the prose call is raised to the caller
NarrateRaises_Fails ==
    /\ pc = "narrate"
    /\ response' = HttpError(500, PipelineErrorDetail)
    /\ llm_calls' = llm_calls + 1
    /\ report_payload' = SentPayload
    /\ tx_events' = CompletionCall
    /\ pc' = "done"
    /\ UNCHANGED <<USE_LLM, question, plan, item, attempt, previous_sql,
                   previous_issue, sql, query_results, gen_calls, store_calls,
                   last_executed, last_returned, last_content, prompt_columns,
                   db_columns>>
    /\ UNCHANGED <<etl_vars, batch_vars>>

\* the completion call for the prose raises
NarrateRaises ==
    /\ pc = "narrate"
    /\ response' = FallbackResponse
    /\ llm_calls' = llm_calls + 1
    /\ report_payload' = SentPayload
    /\ tx_events' = CompletionCall
    /\ pc' = "done"
    /\ UNCHANGED <<USE_LLM, question, plan, item, attempt, previous_sql,
                   previous_issue, sql, query_results, gen_calls, store_calls,
                   last_executed,
                   last_returned, last_content, prompt_columns, db_columns>>
    /\ UNCHANGED <<etl_vars, batch_vars>>

(***************************************************************************)
(* The response has been sent; the process waits for the next request.     *)
(***************************************************************************)
NextRequest ==
    /\ pc = "done"
    /\ pc' = "idle"
    /\ question' = None
    /\ plan' = <<>>
    /\ item' = 0
    /\ NoAttempt
    /\ query_results' = <<>>
    /\ response' = NoResponse
    /\ llm_calls' = 0
    /\ store_calls' = 0
    /\ last_executed' = None
    /\ last_returned' = NoCall
    /\ last_content' = NoContent
    /\ prompt_columns' = NoPrompt
    /\ report_payload' = NoPayload
    /\ tx_events' = <<>>
    /\ UNCHANGED <<USE_LLM, db_columns>>
    /\ UNCHANGED <<etl_vars, batch_vars>>

Next ==
    \/ \E q \in Questions : RunAgentUnavailable(q)
    \/ \E q \in Questions : RunAgentStart(q)
    \/ \E content \in Contents : Generate(content)
    \/ \E stage \in DecideSqlStages : GenerateRaises(stage)
    \/ Validate
    \/ \E result \in [n : RowCounts, w : ColCounts] : Execute(result)
    \/ ExecuteRaises
    \/ \E text \in Narratives : Narrate(text)
    \/ NarrateRaises
    \/ NextRequest

Spec == Init /\ [][Next]_vars

\* every call the request is waiting for returns or raises, and the
\* synchronous handler goes on
FairSpec == Spec /\ WF_vars(Next)

(***************************************************************************)
(* The Plan Builder on many questions: requests that go as far as the      *)
(* plan and the first call of decide_sql, which raises.                    *)
(***************************************************************************)
PlanNext ==
    \/ \E q \in PlanQuestions : RunAgentUnavailable(q)
    \/ \E q \in PlanQuestions : RunAgentStart(q)
    \/ \E stage \in DecideSqlStages : GenerateRaises(stage)
    \/ NextRequest

PlanSpec == Init /\ [][PlanNext]_vars

(***************************************************************************)
(* The ingestion process beside the agent: ensure_columns_exist adds       *)
(* a column to the table with ALTER TABLE ... ADD COLUMN, at any moment of *)
(* a request for a simple question.                                        *)
(***************************************************************************)
IngestAddsColumn(col_type) ==
    /\ Len(db_columns) < MaxColumns
    /\ db_columns' = Append(db_columns, col_type)
    /\ UNCHANGED <<USE_LLM, pc, question, plan, item, attempt, previous_sql,
                   previous_issue, sql, query_results, response, gen_calls,
                   llm_calls, store_calls, last_executed, last_returned,
                   last_content, prompt_columns, report_payload, tx_events>>
    /\ UNCHANGED <<etl_vars, batch_vars>>

IngestNext ==
    \/ RunAgentUnavailable(Q_como_foi)
    \/ RunAgentStart(Q_como_foi)
    \/ \E content \in Contents : Generate(content)
    \/ \E stage \in DecideSqlStages : GenerateRaises(stage)
    \/ Validate
    \/ \E result \in [n : RowCounts, w : ColCounts] : Execute(result)
    \/ ExecuteRaises
    \/ \E text \in Narratives : Narrate(text)
    \/ NarrateRaises
    \/ NextRequest
    \/ \E col_type \in ColumnTypes : IngestAddsColumn(col_type)

IngestSpec == Init /\ [][IngestNext]_vars

(***************************************************************************)
(* The ingestion watcher, step by step.                                    *)
(***************************************************************************)
\* a file is put in inbox_dir
FileArrives(f) ==
    /\ f \notin inbox
    /\ inbox' = inbox \cup {f}
    /\ UNCHANGED <<etl_pc, polls, novos, passed, job, pending, table_columns,
                   faturamento, etl_jobs>>
    /\ UNCHANGED <<agent_vars, batch_vars>>

\* get_processados: SELECT DISTINCT arquivo_nome FROM etl_jobs WHERE
\* status = 'success'
get_processados ==
    {etl_jobs[k].arquivo_nome : k \in {i \in DOMAIN etl_jobs : etl_jobs[i].status = "success"}}

\* variant: every file found is taken as new
Novos_Unfiltered(todos_arquivos, processados) == todos_arquivos

\* novos = [f for f in todos_arquivos if f.name not in processados]
Novos(todos_arquivos, processados) == {f \in todos_arquivos : f \notin processados}

\* main: one iteration of the while loop lists the directory and reads the
\* processed names
Poll ==
    /\ etl_pc = "sleep"
    /\ polls < MaxPolls
    /\ polls' = polls + 1
    /\ novos' = Novos(inbox, get_processados)
    /\ passed' = <<>>
    /\ etl_pc' = "loop"
    /\ UNCHANGED <<inbox, job, pending, table_columns, faturamento, etl_jobs>>
    /\ UNCHANGED <<agent_vars, batch_vars>>

\* for file in novos: run_etl_for_file(file, cliente_id) is entered; glob
\* fixes no order of the files
StartFile ==
    /\ etl_pc = "loop"
    /\ \E f \in novos :
        /\ job' = NewJob(f)
        /\ novos' = novos \ {f}
        /\ passed' = Append(passed, f)
    /\ pending' = 0
    /\ etl_pc' = "read"
    /\ UNCHANGED <<inbox, polls, table_columns, faturamento, etl_jobs>>
    /\ UNCHANGED <<agent_vars, batch_vars>>

\* the for loop is over: time.sleep(poll_interval)
EndPoll ==
    /\ etl_pc = "loop"
    /\ novos = {}
    /\ etl_pc' = "sleep"
    /\ UNCHANGED <<inbox, polls, novos, passed, job, pending, table_columns,
                   faturamento, etl_jobs>>
    /\ UNCHANGED <<agent_vars, batch_vars>>

\* except Exception as e: the open transaction, if any, has been rolled
\* back, and the finally block is next
Fail(msg) ==
    /\ job' = [job EXCEPT !.status_job = "fail", !.error_message = msg]
    /\ pending' = 0
    /\ etl_pc' = "record"

\* pd.read_excel and the two renamings; an empty sheet raises ValueError
ReadSheet ==
    /\ etl_pc = "read"
    /\ IF SheetRows[job.arquivo_nome] = 0
       THEN Fail("Planilha sem linhas de dados.")
       ELSE etl_pc' = "columns" /\ UNCHANGED <<job, pending>>
    /\ UNCHANGED <<inbox, polls, novos, passed, table_columns, faturamento, etl_jobs>>
    /\ UNCHANGED <<agent_vars, batch_vars>>

\* a statement of the try block raises: pd.read_excel, ensure_columns_exist,
\* engine.begin(), an insert, or the commit when the with block is left
TryBlockRaises ==
    /\ etl_pc \in {"read", "columns", "insert", "commit"}
    /\ Fail("<exception>")
    /\ UNCHANGED <<inbox, polls, novos, passed, table_columns, faturamento, etl_jobs>>
    /\ UNCHANGED <<agent_vars, batch_vars>>

\* ensure_columns_exist: the missing columns are added in one transaction
EnsureColumns ==
    /\ etl_pc = "columns"
    /\ table_columns' = table_columns \cup SheetColumns[job.arquivo_nome]
    /\ etl_pc' = "insert"
    /\ UNCHANGED <<inbox, polls, novos, passed, job, pending, faturamento, etl_jobs>>
    /\ UNCHANGED <<agent_vars, batch_vars>>

\* conn.execute(insert_sql, rec) for the next row of the sheet
InsertRow ==
    /\ etl_pc = "insert"
    /\ pending < SheetRows[job.arquivo_nome]
    /\ pending' = pending + 1
    /\ UNCHANGED <<etl_pc, inbox, polls, novos, passed, job, table_columns,
                   faturamento, etl_jobs>>
    /\ UNCHANGED <<agent_vars, batch_vars>>

\* after the for loop, still inside the with block: rows_imported = len(df)
EndInsertLoop ==
    /\ etl_pc = "insert"
    /\ pending = SheetRows[job.arquivo_nome]
    /\ job' = [job EXCEPT !.rows_imported = SheetRows[job.arquivo_nome]]
    /\ etl_pc' = "commit"
    /\ UNCHANGED <<inbox, polls, novos, passed, pending, table_columns,
                   faturamento, etl_jobs>>
    /\ UNCHANGED <<agent_vars, batch_vars>>

\* the with block is left: the transaction commits
Commit ==
    /\ etl_pc = "commit"
    /\ faturamento' = [faturamento EXCEPT ![job.arquivo_nome] = @ + pending]
    /\ pending' = 0
    /\ etl_pc' = "record"
    /\ UNCHANGED <<inbox, polls, novos, passed, job, table_columns, etl_jobs>>
    /\ UNCHANGED <<agent_vars, batch_vars>>

\* finally: INSERT INTO etl_jobs; run_etl_for_file returns to the for loop
RecordJob ==
    /\ etl_pc = "record"
    /\ etl_jobs' = Append(etl_jobs,
                          [arquivo_nome |-> job.arquivo_nome, status |-> job.status_job,
                           rows_imported |-> job.rows_imported,
                           error_message |-> job.error_message])
    /\ etl_pc' = "loop"
    /\ UNCHANGED <<inbox, polls, novos, passed, job, pending, table_columns, faturamento>>
    /\ UNCHANGED <<agent_vars, batch_vars>>

\* the insert into etl_jobs raises: the exception leaves run_etl_for_file
\* and the for loop, main logs it and sleeps
RecordJobRaises ==
    /\ etl_pc = "record"
    /\ novos' = {}
    /\ etl_pc' = "sleep"
    /\ UNCHANGED <<inbox, polls, passed, job, pending, table_columns, faturamento,
                   etl_jobs>>
    /\ UNCHANGED <<agent_vars, batch_vars>>

EtlNext ==
    \/ \E f \in DOMAIN SheetRows : FileArrives(f)
    \/ Poll
    \/ StartFile
    \/ EndPoll
    \/ ReadSheet
    \/ TryBlockRaises
    \/ EnsureColumns
    \/ InsertRow
    \/ EndInsertLoop
    \/ Commit
    \/ RecordJob
    \/ RecordJobRaises

EtlSpec == Init /\ [][EtlNext]_vars

(***************************************************************************)
(* utils.run_queries, one query of the list at a time.                     *)
(***************************************************************************)
\* run_queries(queries) is called: results = []
RunQueries(qs) ==
    /\ bq_pc \in {"idle", "returned"}
    /\ bq_queries' = qs
    /\ bq_index' = 1
    /\ bq_sql' = None
    /\ bq_results' = <<>>
    /\ bq_executed' = <<>>
    /\ bq_pc' = "loop"
    /\ UNCHANGED <<agent_vars, etl_vars>>

\* sql = enforce_sql_limits(q["sql"]); if not is_safe_sql(sql): the error
\* result is appended and the loop continues
BatchCheck ==
    /\ bq_pc = "loop"
    /\ bq_index <= Len(bq_queries)
    /\ LET q == bq_queries[bq_index]
           enforced == utils_enforce_sql_limits(q.sql)
       IN /\ bq_sql' = enforced
          /\ IF utils_is_safe_sql(enforced)
             THEN /\ bq_pc' = "execute"
                  /\ UNCHANGED <<bq_index, bq_results>>
             ELSE /\ bq_results' =
                        Append(bq_results,
                               BatchResult(q, NoRows, <<"SQL insegura (não começa com SELECT).">>))
                  /\ bq_index' = bq_index + 1
                  /\ UNCHANGED bq_pc
    /\ UNCHANGED <<bq_queries, bq_executed>>
    /\ UNCHANGED <<agent_vars, etl_vars>>

\* rows = db_mcp_tool(sql) returns, and the width of the first row is
\* compared with MAX_COLS
BatchExecute(result) ==
    /\ bq_pc = "execute"
    /\ bq_executed' = Append(bq_executed, <<bq_index, bq_sql, Returned(result)>>)
    /\ LET q == bq_queries[bq_index]
       IN bq_results' =
            Append(bq_results,
                   IF result.n > 0 /\ result.w > CONFIG_MAX_COLS
                   THEN BatchResult(q, NoRows,
                                    <<"SQL retornou muitas colunas (", result.w, ").">>)
                   ELSE BatchResult(q, RowsOf(result), None))
    /\ bq_index' = bq_index + 1
    /\ bq_pc' = "loop"
    /\ UNCHANGED <<bq_queries, bq_sql>>
    /\ UNCHANGED <<agent_vars, etl_vars>>

\* variant: the exception ends the loop
BatchExecuteRaises_EndsLoop ==
    /\ bq_pc = "execute"
    /\ bq_executed' = Append(bq_executed, <<bq_index, bq_sql, Raised>>)
    /\ bq_results' =
         Append(bq_results,
                BatchResult(bq_queries[bq_index], NoRows,
                            <<"Erro ao executar SQL: ", "<exception>">>))
    /\ bq_index' = Len(bq_queries) + 1
    /\ bq_pc' = "loop"
    /\ UNCHANGED <<bq_queries, bq_sql>>
    /\ UNCHANGED <<agent_vars, etl_vars>>

\* db_mcp_tool(sql) raises: except Exception as e appends the error result
BatchExecuteRaises ==
    /\ bq_pc = "execute"
    /\ bq_executed' = Append(bq_executed, <<bq_index, bq_sql, Raised>>)
    /\ bq_results' =
         Append(bq_results,
                BatchResult(bq_queries[bq_index], NoRows,
                            <<"Erro ao executar SQL: ", "<exception>">>))
    /\ bq_index' = bq_index + 1
    /\ bq_pc' = "loop"
    /\ UNCHANGED <<bq_queries, bq_sql>>
    /\ UNCHANGED <<agent_vars, etl_vars>>

\* the for loop is over: return results
BatchReturn ==
    /\ bq_pc = "loop"
    /\ bq_index > Len(bq_queries)
    /\ bq_pc' = "returned"
    /\ UNCHANGED <<bq_queries, bq_index, bq_sql, bq_results, bq_executed>>
    /\ UNCHANGED <<agent_vars, etl_vars>>

BatchNext ==
    \/ \E qs \in BatchInputs : RunQueries(qs)
    \/ BatchCheck
    \/ \E result \in [n : RowCounts, w : ColCounts] : BatchExecute(result)
    \/ BatchExecuteRaises
    \/ BatchReturn

BatchSpec == Init /\ [][BatchNext]_vars

(***************************************************************************)
(* Properties of the Retry Controller.                                     *)
(***************************************************************************)
\* C1: every QueryResult that plan_and_run_sql_with_limits accepted, after
\* whatever attempts came before, holds at most MAX_ROWS rows and rows of at
\* most MAX_COLS columns.
AcceptedWithinCaps ==
    \A i \in DOMAIN query_results :
        query_results[i].error = NoError =>
            /\ query_results[i].total_rows <= MAX_ROWS
            /\ query_results[i].rows.n <= MAX_ROWS
            /\ (query_results[i].rows.n > 0 => query_results[i].rows.w <= MAX_COLS)

\* an accepted result sits exactly on both caps
AcceptedAtBothCaps ==
    \E i \in DOMAIN query_results :
        /\ query_results[i].error = NoError
        /\ query_results[i].rows = [n |-> MAX_ROWS, w |-> MAX_COLS]

\* C2: every statement that passes validation, and every statement of an
\* accepted result, satisfies the full safety policy: it starts with select
\* once trimmed and lower-cased, holds at most one statement separator, and
\* holds none of the denylisted words.
OnlyFullySafeStatementsPass ==
    LET Denylist ==
            { <<"i", "n", "s", "e", "r", "t">>,
              <<"u", "p", "d", "a", "t", "e">>,
              <<"d", "e", "l", "e", "t", "e">>,
              <<"d", "r", "o", "p">>,
              <<"a", "l", "t", "e", "r">>,
              <<"t", "r", "u", "n", "c", "a", "t", "e">>,
              <<"c", "r", "e", "a", "t", "e">>,
              <<"g", "r", "a", "n", "t">>,
              <<"r", "e", "v", "o", "k", "e">>,
              <<"e", "x", "e", "c", "u", "t", "e">>,
              <<"c", "o", "p", "y">> }
        HasToken(s, word) ==
            \E k \in 1..Len(s) :
                /\ HasAt(s, k, word)
                /\ WordBoundary(s, k)
                /\ WordBoundary(s, k + Len(word))
        FullySafe(stmt) ==
            LET s == lower(strip(stmt))
            IN /\ startswith(s, <<"s", "e", "l", "e", "c", "t">>)
               /\ Cardinality({k \in 1..Len(s) : s[k] = ";"}) <= 1
               /\ \A word \in Denylist : ~HasToken(s, word)
    IN /\ pc = "execute" => FullySafe(sql)
       /\ \A i \in DOMAIN query_results :
              query_results[i].error = NoError => FullySafe(query_results[i].sql)

\* C3: for one PlanItem decide_sql is called at most MAX_SQL_ATTEMPTS times;
\* once that many candidates were generated the controller is never about to
\* generate another one.
AttemptsBounded ==
    /\ gen_calls <= MAX_SQL_ATTEMPTS
    /\ attempt <= MAX_SQL_ATTEMPTS
    /\ pc = "generate" => gen_calls < MAX_SQL_ATTEMPTS

\* a PlanItem failed because its third attempt was rejected
ItemExhausted ==
    \E i \in DOMAIN query_results : query_results[i].error = ExhaustedDetail

\* C4: when the executed statement is not aggregated and has a limit clause
\* (the analyzer's verdict on it) and the store returns exactly MAX_ROWS rows,
\* the attempt is not accepted: the controller generates again with the
\* feedback that asks for an aggregated query, or fails the item when this
\* was the last attempt.
SamplingArtifactRetried ==
    [][ ( /\ pc = "execute"
          /\ last_returned'.kind = "rows"
          /\ ~ShapeOf[sql].has_aggregate
          /\ ShapeOf[sql].has_limit
          /\ last_returned'.rows.n = MAX_ROWS )
        => \/ /\ attempt < MAX_SQL_ATTEMPTS
              /\ pc' = "generate"
              /\ item' = item
              /\ attempt' = attempt + 1
              /\ previous_sql' = sql
              /\ previous_issue' = SampleIssue
              /\ query_results' = query_results
           \/ /\ attempt = MAX_SQL_ATTEMPTS
              /\ Len(query_results') = Len(query_results) + 1
              /\ query_results'[Len(query_results')].error = ExhaustedDetail
      ]_vars

\* the second attempt is about to be generated with the sampling feedback
RetryingAfterSample ==
    /\ pc = "generate"
    /\ attempt = 2
    /\ previous_issue = SampleIssue
    /\ last_returned.kind = "rows"
    /\ last_returned.rows.n = MAX_ROWS

\* C5: a candidate that fails the safety check fails its PlanItem at once:
\* the error is recorded, the statement is not executed (no statement that
\* reaches execution is unsafe), no other candidate is generated for the
\* item, no store or completion call is made, and an unsafe first candidate
\* has consumed no retry.
UnsafeFailsAtOnce ==
    [][ /\ pc = "execute" => SafeOf[sql]
        /\ (pc = "validate" /\ ~SafeOf[sql]) =>
              /\ Len(query_results') = Len(query_results) + 1
              /\ query_results'[Len(query_results')].error = UnsafeDetail
              /\ query_results'[Len(query_results')].id = plan[item].id
              /\ pc' \in {"generate", "narrate", "done"}
              /\ pc' = "generate" => (item' = item + 1 /\ gen_calls' = 0)
              /\ gen_calls = attempt
              /\ store_calls' = store_calls
              /\ llm_calls' = llm_calls
              /\ last_executed' = last_executed
              /\ last_returned' = last_returned
      ]_vars

\* the first candidate of the first item of a report was unsafe: one
\* generation, nothing executed, and the second item is starting
UnsafeFirstCandidate ==
    /\ Len(plan) = 3
    /\ pc = "generate"
    /\ item = 2
    /\ query_results[1].error = UnsafeDetail
    /\ llm_calls = 1
    /\ store_calls = 2
    /\ last_executed = None

\* C6: an exception of db_mcp_tool is a retryable defect: the request goes
\* on, and the controller generates the next candidate, or fails the item
\* when this was the last attempt.
ExecutionErrorRetried ==
    [][ (pc = "execute" /\ last_returned'.kind = "raised")
        => /\ response' = response
           /\ \/ /\ attempt < MAX_SQL_ATTEMPTS
                 /\ pc' = "generate"
                 /\ item' = item
                 /\ attempt' = attempt + 1
              \/ /\ attempt = MAX_SQL_ATTEMPTS
                 /\ Len(query_results') = Len(query_results) + 1
                 /\ query_results'[Len(query_results')].error # NoError
      ]_vars

\* C7: when a PlanItem of a plan of several items fails (unsafe statement,
\* or the last attempt rejected), a QueryResult with the error, no sql, no
\* rows and total_rows 0 is appended, the results before it are kept, and
\* the next PlanItem starts; after the last item the plan loop ends normally.
FailedItemRecorded ==
    [][ ( /\ Len(plan) > 1
          /\ \/ pc = "validate" /\ ~SafeOf[sql]
             \/ /\ pc = "execute"
                /\ attempt = MAX_SQL_ATTEMPTS
                /\ last_returned'.kind = "rows"
                /\ \/ last_returned'.rows.n > MAX_ROWS
                   \/ last_returned'.rows.w > MAX_COLS
                   \/ /\ last_returned'.rows.n = MAX_ROWS
                      /\ ~ShapeOf[sql].has_aggregate
                      /\ ShapeOf[sql].has_limit )
        => /\ Len(query_results') = Len(query_results) + 1
           /\ SubSeq(query_results', 1, Len(query_results)) = query_results
           /\ LET qr == query_results'[Len(query_results')]
              IN /\ qr.id = plan[item].id
                 /\ qr.subquestion = plan[item].question
                 /\ qr.error \in {UnsafeDetail, ExhaustedDetail}
                 /\ qr.sql = None
                 /\ qr.rows = NoRows
                 /\ qr.total_rows = 0
           /\ item < Len(plan) =>
                 /\ pc' = "generate"
                 /\ item' = item + 1
                 /\ attempt' = 1
                 /\ response' = NoResponse
           /\ item = Len(plan) =>
                 /\ pc' \in {"narrate", "done"}
                 /\ pc' = "narrate" => response' = NoResponse
                 /\ pc' = "done" => response' = HttpError(500, AllFailedDetail)
      ]_vars

\* a report whose first item exhausted its attempts and whose second item
\* was unsafe still ran its third item, which was accepted
LaterItemsRanAfterFailures ==
    /\ Len(plan) = 3
    /\ Len(query_results) = 3
    /\ query_results[1].error = ExhaustedDetail
    /\ query_results[2].error = UnsafeDetail
    /\ query_results[3].error = NoError
    /\ pc = "narrate"

\* C8: when every PlanItem of the plan ended with an error the request is
\* over with an HTTP 500 and no answer: neither prose nor the fallback
\* notice.
AllFailedIsError ==
    ( /\ pc \in {"narrate", "done"}
      /\ Len(plan) > 0
      /\ Len(query_results) = Len(plan)
      /\ \A i \in DOMAIN query_results : query_results[i].error # NoError )
    => /\ pc = "done"
       /\ response.kind = "http_error"
       /\ response.status = 500
       /\ response.detail = AllFailedDetail
       /\ response.answer = ""

\* the three items of a report failed and the request ended
ReportAllFailed ==
    /\ pc = "done"
    /\ Len(plan) = 3
    /\ Len(query_results) = 3
    /\ \A i \in 1..3 : query_results[i].error # NoError

\* C9: without the credential run_agent answers every question with the
\* fixed unavailable message and debug_sql null; no plan is built, no
\* statement is generated or validated, and neither the store nor the
\* completion service is called.
UnavailableShortCircuits ==
    ~USE_LLM =>
        /\ plan = <<>>
        /\ query_results = <<>>
        /\ sql = None
        /\ gen_calls = 0
        /\ llm_calls = 0
        /\ store_calls = 0
        /\ last_executed = None
        /\ pc \in {"idle", "done"}
        /\ pc = "done" => response = AgentResponse(UnavailableMessage, None)

\* a request was answered without the credential
AnsweredUnavailable ==
    /\ ~USE_LLM
    /\ pc = "done"
    /\ question \in Questions

\* C10: the plan of every question has exactly 1 or exactly 3 items, and a
\* pipeline that ran to its end produced as many QueryResults: 1 or 3.
PlanOfOneOrThree ==
    /\ \A q \in PlanQuestions : PlanSizeOf[q] \in {1, 3}
    /\ (USE_LLM /\ pc # "idle") => Len(plan) \in {1, 3}
    /\ ( \/ pc = "narrate"
         \/ response.kind = "answer" /\ USE_LLM
         \/ response.detail = AllFailedDetail )
       => /\ Len(query_results) = Len(plan)
          /\ Len(query_results) \in {1, 3}

\* both sizes occur among the questions, and a report reached its end with
\* three results
ThreeResultsProduced ==
    /\ \E q \in PlanQuestions : PlanSizeOf[q] = 1
    /\ \E q \in PlanQuestions : PlanSizeOf[q] = 3
    /\ pc = "narrate"
    /\ Len(plan) = 3
    /\ Len(query_results) = 3

(***************************************************************************)
(* Properties of the Plan Builder (checked under PlanSpec).                *)
(***************************************************************************)
\* C11 (as amended): the plan has the report shape if and only if the
\* lower-cased question holds "relatório" or "relatorio", or holds "como foi"
\* together with a year token of the form 20dd between word boundaries;
\* every other question gets the simple shape.
ReportIffSignalWith20xxYear ==
    LET q_low == lower(question)
        Year20xx(s) ==
            \E k \in 1..(Len(s) - 3) :
                /\ s[k] = "2"
                /\ s[k + 1] = "0"
                /\ IsDigit(s[k + 2])
                /\ IsDigit(s[k + 3])
                /\ WordBoundary(s, k)
                /\ WordBoundary(s, k + 4)
        ReportWord(s) ==
            \/ Contains(s, <<"r", "e", "l", "a", "t", "ó", "r", "i", "o">>)
            \/ Contains(s, <<"r", "e", "l", "a", "t", "o", "r", "i", "o">>)
        HowWas(s) == Contains(s, <<"c", "o", "m", "o", " ", "f", "o", "i">>)
    IN (USE_LLM /\ pc # "idle") =>
           /\ Len(plan) \in {1, 3}
           /\ (Len(plan) = 3) <=>
                  (ReportWord(q_low) \/ (HowWas(q_low) /\ Year20xx(q_low)))

\* C11 (as stated): the same with any 4-digit token as the year.
ReportIffSignalWithAnyYear ==
    LET q_low == lower(question)
        AnyYear(s) ==
            \E k \in 1..(Len(s) - 3) :
                /\ \A d \in 0..3 : IsDigit(s[k + d])
                /\ WordBoundary(s, k)
                /\ WordBoundary(s, k + 4)
        ReportWord(s) ==
            \/ Contains(s, <<"r", "e", "l", "a", "t", "ó", "r", "i", "o">>)
            \/ Contains(s, <<"r", "e", "l", "a", "t", "o", "r", "i", "o">>)
        HowWas(s) == Contains(s, <<"c", "o", "m", "o", " ", "f", "o", "i">>)
    IN (USE_LLM /\ pc # "idle") =>
           /\ Len(plan) \in {1, 3}
           /\ (Len(plan) = 3) <=>
                  (ReportWord(q_low) \/ (HowWas(q_low) /\ AnyYear(q_low)))

\* "Como foi 1999" was planned: the broad phrase with a 4-digit token that is
\* not a 20dd year, and the plan is simple
BroadPhraseWithOtherYear ==
    /\ USE_LLM
    /\ pc = "generate"
    /\ question = <<"C", "o", "m", "o", " ", "f", "o", "i", " ">> \o <<"1", "9", "9", "9">>
    /\ Len(plan) = 1

\* C13: a report plan is the three fixed items in the order q1 monthly
\* overview, q2 breakdown by status, q3 breakdown by customer segment,
\* whatever the wording of the question; a simple plan is one item whose
\* sub-question is the question as it was asked.
PlanShapesFixed ==
    (USE_LLM /\ pc # "idle") =>
        IF Len(plan) = 1
        THEN /\ plan[1].id = "q1"
             /\ plan[1].question = question
        ELSE /\ Len(plan) = 3
             /\ <<plan[1].id, plan[2].id, plan[3].id>> = <<"q1", "q2", "q3">>
             /\ <<plan[1].title, plan[2].title, plan[3].title>> =
                    << "Visão geral mensal do faturamento",
                       "Faturamento por status do título",
                       "Faturamento por cluster ou segmento de cliente" >>
             /\ \A i \in 1..3 :
                    /\ plan[i].question = ReportPlan[i].question
                    /\ plan[i].goal = ReportPlan[i].goal
                    /\ plan[i].question # question

\* the question "relatório 2024" was planned as a report of three items
ReportPlanned ==
    /\ USE_LLM
    /\ pc = "generate"
    /\ question = <<"r", "e", "l", "a", "t", "ó", "r", "i", "o", " ">> \o <<"2", "0", "2", "4">>
    /\ Len(plan) = 3

(***************************************************************************)
(* Scenarios and further properties of the pipeline (checked under Spec).  *)
(***************************************************************************)
\* C14: for a simple question whose first candidate is the non-aggregated
\* SELECT * ... LIMIT 100 and returns exactly MAX_ROWS rows, attempt 1 is
\* rejected and a second candidate is generated; when that one is the
\* aggregated SELECT SUM(...) and returns one row, it is accepted on attempt
\* 2 after exactly two generation calls, and the QueryResult holds the
\* second statement and its single row.
ScenarioSampleThenAggregate ==
    [][ /\ ( /\ Len(plan) = 1
             /\ pc = "execute"
             /\ attempt = 1
             /\ sql = CandidateOf[C_raw_limit]
             /\ last_returned'.kind = "rows"
             /\ last_returned'.rows.n = MAX_ROWS )
           => /\ pc' = "generate"
              /\ attempt' = 2
              /\ previous_sql' = CandidateOf[C_raw_limit]
              /\ previous_issue' = SampleIssue
              /\ query_results' = <<>>
        /\ ( /\ Len(plan) = 1
             /\ pc = "execute"
             /\ attempt = 2
             /\ previous_sql = CandidateOf[C_raw_limit]
             /\ previous_issue = SampleIssue
             /\ sql = CandidateOf[C_sum]
             /\ last_returned'.kind = "rows"
             /\ last_returned'.rows.n = 1
             /\ last_returned'.rows.w <= MAX_COLS )
           => /\ gen_calls = 2
              /\ llm_calls = 2
              /\ pc' = "narrate"
              /\ Len(query_results') = 1
              /\ query_results'[1].error = NoError
              /\ query_results'[1].sql = CandidateOf[C_sum]
              /\ query_results'[1].rows = last_returned'.rows
              /\ query_results'[1].total_rows = 1
              /\ query_results'[1].subquestion = question
      ]_vars

\* a simple question was answered by SELECT SUM(...) with one row on the
\* second attempt: two generations and two executions
AcceptedOnSecondAttempt ==
    /\ Len(plan) = 1
    /\ pc = "narrate"
    /\ query_results[1].error = NoError
    /\ query_results[1].sql = CandidateOf[C_sum]
    /\ query_results[1].total_rows = 1
    /\ llm_calls = 2
    /\ store_calls = 6

\* C15: every statement sent to the store carries a clause that limits its
\* rows (LIMIT followed by a number), its own or the appended ' LIMIT 100',
\* so that no execution returns more rows than that number.
ExecutedStatementsRowLimited ==
    /\ pc = "execute" =>
           \E k \in 1..Len(sql) :
               LET s == lower(sql)
                   j == SkipSpace(s, k + 5)
               IN /\ HasAt(s, k, <<"l", "i", "m", "i", "t">>)
                  /\ WordBoundary(s, k)
                  /\ j > k + 5
                  /\ j <= Len(s)
                  /\ IsDigit(s[j])
    /\ last_returned.kind = "rows" =>
           /\ ShapeOf[last_executed].has_limit
           /\ last_returned.rows.n <= ShapeOf[last_executed].limit_value

(***************************************************************************)
(* Properties of the Answer Synthesizer (checked under Spec).              *)
(***************************************************************************)
\* C16 (as amended): in an answer returned after narration succeeded,
\* debug_sql of a simple plan is the accepted statement alone, without a
\* title; debug_sql of a report is one block per PlanItem in plan order,
\* joined by blank lines: "-- title", a line break and the statement for an
\* accepted item, "-- title (erro)", a line break and "-- " with the error
\* for a failed item.
DebugSqlOfNarratedAnswer ==
    LET Block(qr) ==
            IF qr.error = NoError
            THEN <<"-- ", qr.title, "\n">> \o qr.sql
            ELSE <<"-- ", qr.title, " (erro)\n-- ", qr.error>>
    IN (USE_LLM /\ pc = "done" /\ response.kind = "answer"
            /\ response.answer \in Narratives) =>
           IF Len(plan) = 1
           THEN response.debug_sql = query_results[1].sql
           ELSE response.debug_sql =
                    Block(query_results[1]) \o <<"\n\n">> \o
                    Block(query_results[2]) \o <<"\n\n">> \o
                    Block(query_results[3])

\* C16 (as stated): in an answer returned after narration succeeded,
\* debug_sql is the concatenation in plan order of the accepted statements,
\* each with its PlanItem title, for simple and report plans alike.
DebugSqlIsAcceptedWithTitles ==
    LET Titled(qr) == <<"-- ", qr.title, "\n">> \o qr.sql
        accepted[k \in 0..Len(query_results)] ==
            IF k = 0 THEN <<>>
            ELSE IF query_results[k].error = NoError
                 THEN Append(accepted[k - 1], Titled(query_results[k]))
                 ELSE accepted[k - 1]
    IN (USE_LLM /\ pc = "done" /\ response.kind = "answer"
            /\ response.answer \in Narratives) =>
           response.debug_sql = JoinBlocks(accepted[Len(query_results)])

\* a report was narrated whose first item failed and whose second item was
\* accepted
NarratedReportWithFailedItem ==
    /\ pc = "done"
    /\ Len(plan) = 3
    /\ response.kind = "answer"
    /\ response.answer \in Narratives
    /\ query_results[1].error # NoError
    /\ query_results[2].error = NoError

\* C17: with the completion service configured, a returned answer has
\* debug_sql null only if no PlanItem succeeded: the accepted SQL is reported
\* also when narration failed.
AcceptedSqlAlwaysReported ==
    ( /\ USE_LLM
      /\ pc = "done"
      /\ response.kind = "answer"
      /\ \E i \in DOMAIN query_results : query_results[i].error = NoError )
    => response.debug_sql # None

\* C18: when the prose call raises after the data was retrieved, run_agent
\* does not fail the request: every request that reached narration ends with
\* an answer, which is the prose of the completion service or else the fixed
\* notice, the same text for every question and every row set.
NarrationFailureFallsBack ==
    [][ pc = "narrate" =>
            /\ pc' = "done"
            /\ response'.kind = "answer"
            /\ response'.status = 200
            /\ \/ response'.answer \in Narratives
               \/ response'.answer =
                      "Os dados foram consultados no banco com sucesso, mas o módulo de IA que gera a resposta em linguagem natural não está disponível no momento. Tente novamente mais tarde."
            /\ UNCHANGED <<question, plan, query_results>>
      ]_vars

\* a report whose items were accepted was answered with the fixed notice
ReportAnsweredWithNotice ==
    /\ pc = "done"
    /\ Len(plan) = 3
    /\ response.kind = "answer"
    /\ response.answer = build_answer
    /\ \A i \in 1..3 : query_results[i].error = NoError

\* C19: a failure of the completion call while a statement is generated for
\* a PlanItem is handled by the rules of that item: the controller generates
\* again or the item fails with an error, and the request is not aborted.
GenerationFailureStaysInItem ==
    [][ (pc = "generate" /\ pc' # "validate" /\ llm_calls' = llm_calls + 1)
        => /\ response'.detail # PipelineErrorDetail
           /\ \/ pc' = "generate" /\ item' = item
              \/ Len(query_results') = Len(query_results) + 1
      ]_vars

\* C20: query_results holds the results of the first PlanItems in plan
\* order, each with the id of its item; when run_analysis_pipeline returns
\* there is exactly one per PlanItem; a statement is generated or executed
\* only for the item after the last result, never for an item that has one.
OneResultPerItemInOrder ==
    /\ Len(query_results) <= Len(plan)
    /\ \A i \in DOMAIN query_results :
           /\ query_results[i].id = plan[i].id
           /\ query_results[i].title = plan[i].title
    /\ pc \in {"generate", "validate", "execute"} =>
           /\ item = Len(query_results) + 1
           /\ item <= Len(plan)
    /\ pc = "narrate" => Len(query_results) = Len(plan)

\* run_analysis_pipeline returned the three results of a report, the second
\* one a failure
PipelineReturnedThree ==
    /\ pc = "narrate"
    /\ Len(plan) = 3
    /\ <<query_results[1].id, query_results[2].id, query_results[3].id>> =
           <<"q1", "q2", "q3">>
    /\ query_results[2].error # NoError

(***************************************************************************)
(* Properties of the report payload.                                       *)
(***************************************************************************)
\* C21: when a report request reaches its prose call, the payload given to
\* generate_report_with_llm has one entry for each PlanItem, in plan order,
\* and the entry of every failed PlanItem carries the error text recorded
\* for it: no failed item is left out.
FailedItemsReachReport ==
    (pc = "done" /\ Len(plan) = 3 /\ response.kind = "answer") =>
        /\ Len(report_payload.queries) = Len(plan)
        /\ \A k \in DOMAIN plan :
              /\ k \in DOMAIN report_payload.queries
              /\ report_payload.queries[k].id = plan[k].id
              /\ report_payload.queries[k].error = query_results[k].error
              /\ query_results[k].error # NoError =>
                    report_payload.queries[k].error \in {UnsafeDetail, ExhaustedDetail}

\* a report was narrated from a payload with a failed and an accepted item
ReportPayloadWithFailedItem ==
    /\ pc = "done"
    /\ Len(plan) = 3
    /\ response.kind = "answer"
    /\ \E k \in DOMAIN report_payload.queries :
          report_payload.queries[k].error = UnsafeDetail
    /\ \E k \in DOMAIN report_payload.queries :
          report_payload.queries[k].error = ExhaustedDetail
    /\ \E k \in DOMAIN report_payload.queries :
          /\ report_payload.queries[k].error = NoError
          /\ report_payload.queries[k].sql = query_results[k].sql

\* C22: what plan_and_run_sql_with_limits does with the rows of an attempt
\* is the ordered table of three rules: (1) a statement without aggregation,
\* with a limit, that returned exactly MAX_ROWS rows is retried with the
\* aggregation feedback; (2) otherwise rows within MAX_ROWS and columns
\* within MAX_COLS are accepted; (3) otherwise the attempt is retried with
\* feedback citing the measured numbers of columns and rows.  A retry on
\* the last attempt is the failure of the PlanItem.
AnalyzeResultIsThreeRuleTable ==
    [][ (pc = "execute" /\ last_returned'.kind = "rows") =>
          LET shape == ShapeOf[sql]
              n == last_returned'.rows.n
              w == IF n > 0 THEN last_returned'.rows.w ELSE 0
              last == query_results'[Len(query_results')]
              accepted ==
                  /\ Len(query_results') = Len(query_results) + 1
                  /\ last.error = NoError
              retried(issue) ==
                  IF attempt < MAX_SQL_ATTEMPTS
                  THEN /\ pc' = "generate"
                       /\ attempt' = attempt + 1
                       /\ item' = item
                       /\ previous_sql' = sql
                       /\ previous_issue' = issue
                       /\ query_results' = query_results
                  ELSE /\ Len(query_results') = Len(query_results) + 1
                       /\ last.error = ExhaustedDetail
          IN IF (~shape.has_aggregate) /\ shape.has_limit /\ n = MAX_ROWS
             THEN retried([kind |-> "sample", num_cols |-> 0, num_rows |-> 0])
             ELSE IF n <= MAX_ROWS /\ w <= MAX_COLS
                  THEN accepted
                  ELSE retried([kind |-> "too_large", num_cols |-> w,
                                num_rows |-> n])
      ]_vars

\* an aggregated statement that returned exactly MAX_ROWS rows of MAX_COLS
\* columns was accepted, in an attempt that was not the first one of the
\* request
AggregatedAtRowCapAccepted ==
    /\ Len(query_results) > 0
    /\ LET last == query_results[Len(query_results)]
       IN /\ last.error = NoError
          /\ last.sql = last_executed
          /\ ShapeOf[last_executed].has_aggregate
          /\ last_returned = Returned([n |-> MAX_ROWS, w |-> MAX_COLS])
          /\ last.rows = last_returned.rows
    /\ store_calls > 3

\* C23: the sampling rule uses the shape of the candidate as decide_sql
\* returned it: a candidate without aggregation and without a limit clause
\* of its own whose execution returns exactly MAX_ROWS rows of at most
\* MAX_COLS columns is accepted.
GeneratedShapeDecidesSampling ==
    [][ ( /\ pc = "execute"
          /\ last_content \in Contents
          /\ ~GeneratedShapeOf[last_content].has_aggregate
          /\ ~GeneratedShapeOf[last_content].has_limit
          /\ last_returned'.kind = "rows"
          /\ last_returned'.rows.n = MAX_ROWS
          /\ last_returned'.rows.w <= MAX_COLS )
        => /\ Len(query_results') = Len(query_results) + 1
           /\ query_results'[Len(query_results')].error = NoError
           /\ query_results'[Len(query_results')].sql = sql
      ]_vars

(***************************************************************************)
(* Properties of the calls made in an attempt.                             *)
(***************************************************************************)
\* C24: the feedback carried by a call of the completion service for a
\* statement: the first call of every PlanItem, the second and third item
\* of a report included, carries none; every later call carries the
\* statement of the attempt just before it in the same PlanItem and the
\* issue found in the rows that attempt returned.
FeedbackFollowsRejection ==
    [][ (pc = "generate" /\ llm_calls' = llm_calls + 1) =>
          LET fb == feedback_block(previous_sql, previous_issue)
          IN /\ gen_calls = attempt - 1
             /\ IF attempt = 1
                THEN fb = NoFeedback
                ELSE /\ fb.sql = last_executed
                     /\ last_returned.kind = "rows"
                     /\ fb.issue =
                          IF /\ ~ShapeOf[last_executed].has_aggregate
                             /\ ShapeOf[last_executed].has_limit
                             /\ last_returned.rows.n = MAX_ROWS
                          THEN [kind |-> "sample", num_cols |-> 0, num_rows |-> 0]
                          ELSE [kind |-> "too_large",
                                num_cols |-> last_returned.rows.w,
                                num_rows |-> last_returned.rows.n]
      ]_vars

\* the second item of a report, whose first item used up its attempts, got
\* its first statement without feedback and its second one with the
\* feedback of the first
SecondItemSecondAttempt ==
    /\ pc = "validate"
    /\ item = 2
    /\ attempt = 2
    /\ gen_calls = 2
    /\ query_results[1].error = ExhaustedDetail
    /\ previous_sql = last_executed
    /\ previous_issue = LargeIssue(MaxTableCols, 1)

\* C25: the steps of an attempt come in the order generate, dialect
\* normalization, validation, execution, analysis of the result: the
\* statement that reaches validation is the normalized one, only a
\* statement that is_safe_sql accepted in this attempt reaches execution,
\* the statement handed to db_mcp_tool is that very text, and a result is
\* accepted only from the rows of that execution.
AttemptStepsInOrder ==
    [][ /\ (pc' = "validate" /\ pc # "validate") =>
              /\ pc = "generate"
              /\ llm_calls' = llm_calls + 1
              /\ NormalizedOf[sql']
        /\ (pc' = "execute" /\ pc # "execute") =>
              /\ pc = "validate"
              /\ sql' = sql
              /\ SafeOf[sql]
        /\ (last_executed' # last_executed /\ pc # "done") =>
              /\ pc = "execute"
              /\ last_executed' = sql
              /\ SafeOf[sql]
        /\ (last_returned' # last_returned /\ pc # "done") =>
              /\ pc = "execute"
              /\ last_executed' = sql
        /\ ( /\ Len(query_results') = Len(query_results) + 1
             /\ query_results'[Len(query_results')].error = NoError ) =>
              /\ pc = "execute"
              /\ last_returned'.kind = "rows"
              /\ query_results'[Len(query_results')].sql = last_executed'
      ]_vars

\* a fenced statement with WITH ROLLUP was rewritten, validated, executed
\* and accepted
RollupStatementAccepted ==
    /\ last_content = C_fenced_rollup
    /\ last_executed = CandidateOf[C_fenced_rollup]
    /\ last_returned.kind = "rows"
    /\ Len(query_results) = 1
    /\ query_results[1].error = NoError
    /\ query_results[1].sql = last_executed
    /\ ~Contains(lower(last_executed), <<"w", "i", "t", "h", " ", "r", "o", "l", "l", "u", "p">>)

(***************************************************************************)
(* Properties of the store accesses.                                       *)
(***************************************************************************)
\* C26: in every step of the pipeline the store transactions are scoped:
\* at most one is open at any time, every statement runs inside one, each
\* of the accesses (schema, samples, execution) has a transaction of its own
\* which is closed before the next begins, none is open while the
\* completion service is called, and none is open when the step ends, that
\* is across a retry or the boundary of a PlanItem.  The transaction of
\* get_column_samples holds one SELECT for each text column.
TransactionsScopedPerAccess ==
    [][ (db_columns' = db_columns) =>
          LET ev == tx_events'
              depth[k \in 0..Len(ev)] ==
                  IF k = 0 THEN 0
                  ELSE IF ev[k] = "begin" THEN depth[k - 1] + 1
                  ELSE IF ev[k] \in {"commit", "rollback"} THEN depth[k - 1] - 1
                  ELSE depth[k - 1]
              begins == {k \in DOMAIN ev : ev[k] = "begin"}
              calls == {k \in DOMAIN ev : ev[k] = "llm"}
          IN /\ \A k \in DOMAIN ev : depth[k] \in {0, 1}
             /\ depth[Len(ev)] = 0
             /\ \A k \in DOMAIN ev : ev[k] = "llm" => depth[k - 1] = 0
             /\ \A k \in DOMAIN ev : ev[k] = "stmt" => depth[k - 1] = 1
             /\ pc # "done" =>
                   /\ store_calls' - store_calls = Cardinality(begins)
                   /\ llm_calls' - llm_calls = Cardinality(calls)
             /\ pc = "execute" => Cardinality(begins) = 1 /\ Len(ev) = 3
             /\ (pc = "generate" /\ pc' = "validate") =>
                   /\ Cardinality(begins) = 2
                   /\ SubSeq(ev, 1, 3) = <<"begin", "stmt", "commit">>
                   /\ ev[Len(ev)] = "llm"
      ]_vars

\* the second attempt of the second item of a report has read schema and
\* samples, each in its transaction, and then called the completion service
SecondItemRetryReadStore ==
    /\ pc = "validate"
    /\ item = 2
    /\ attempt = 2
    /\ tx_events = <<"begin", "stmt", "commit",
                     "begin", "stmt", "stmt", "commit", "llm">>

\* C27: schema and samples are read from the store in every call of
\* decide_sql: the schema in the prompt of a generation call is the table's
\* schema when the call is made, so a column that the ingestion process
\* added after an earlier attempt is in the prompt of the later one.
SchemaReadInEveryCall ==
    [][ (pc = "generate" /\ llm_calls' = llm_calls + 1) =>
          /\ prompt_columns' = db_columns
          /\ store_calls' = store_calls + 2
          /\ LET begins == {k \in DOMAIN tx_events' : tx_events'[k] = "begin"}
                 text_cols == {k \in DOMAIN db_columns :
                                   db_columns[k] \in {"text", "character varying",
                                                      "varchar", "char"}}
             IN /\ Cardinality(begins) = 2
                /\ Len(tx_events') = 6 + Cardinality(text_cols)
      ]_vars

\* the second attempt of an item was prompted with a schema that holds a
\* text column added by the ingestion process, and sampled that column too
LaterAttemptSawAddedColumn ==
    /\ pc = "validate"
    /\ attempt = 2
    /\ db_columns = Append(InitialColumns, "text")
    /\ prompt_columns = db_columns
    /\ tx_events = <<"begin", "stmt", "commit",
                     "begin", "stmt", "stmt", "stmt", "commit", "llm">>

(***************************************************************************)
(* Termination.                                                            *)
(***************************************************************************)
\* C28: when every call returns or raises, a request that was started
\* ends with a response; until the statements of the plan are done the
\* number of generation calls is at most MAX_SQL_ATTEMPTS for each
\* PlanItem so far (at most 9 in all), the number of executions is at most
\* the number of generation calls, and a step that goes back to generation
\* moves to the next attempt or to the next PlanItem.
RequestTerminatesWithinAttempts ==
    /\ [] ( /\ Len(plan) <= 3
            /\ pc \in {"generate", "validate", "execute"} =>
                  /\ llm_calls <= MAX_SQL_ATTEMPTS * (item - 1) + attempt
                  /\ attempt \in 1..MAX_SQL_ATTEMPTS
                  /\ item \in 1..Len(plan)
                  /\ store_calls - 2 * llm_calls \in 0..llm_calls
            /\ pc = "narrate" =>
                  /\ llm_calls <= MAX_SQL_ATTEMPTS * Len(plan)
                  /\ store_calls - 2 * llm_calls \in 0..llm_calls
            /\ pc = "done" =>
                  /\ llm_calls <= MAX_SQL_ATTEMPTS * Len(plan) + 1
                  /\ store_calls <= 3 * MAX_SQL_ATTEMPTS * Len(plan) )
    /\ [][ (pc' = "generate" /\ pc # "idle") =>
              \/ item' = item /\ attempt' = attempt + 1
              \/ item' = item + 1 /\ attempt' = 1
         ]_vars
    /\ ((pc # "idle") ~> (pc = "done"))

\* a report ended after nine generation calls and nine executions
NineGenerationsNineExecutions ==
    /\ pc = "done"
    /\ Len(plan) = 3
    /\ llm_calls = 9
    /\ store_calls = 27
    /\ response.kind = "http_error"

\* C29: when the completion service returns the empty text for a
\* statement, the candidate made of it is " LIMIT 100;", which does not
\* pass validation: nothing is executed in that attempt, no result ever
\* holds that candidate, and the PlanItem gets an error result while the
\* request goes on to its response.
EmptyContentFailsItem ==
    [][ /\ ( /\ pc = "generate"
             /\ llm_calls' = llm_calls + 1
             /\ last_content' = C_empty ) =>
              /\ pc' = "validate"
              /\ sql' = <<" ", "L", "I", "M", "I", "T", " ", "1", "0", "0", ";">>
              /\ response' = response
        /\ (pc = "validate" /\ last_content = C_empty) =>
              /\ Len(query_results') = Len(query_results) + 1
              /\ query_results'[Len(query_results')].id = plan[item].id
              /\ query_results'[Len(query_results')].error = UnsafeDetail
              /\ last_executed' = last_executed
              /\ store_calls' = store_calls
        /\ \A k \in DOMAIN query_results' :
              query_results'[k].sql # CandidateOf[C_empty]
      ]_vars

\* the request whose only statement came from an empty completion ended
\* with the error, nothing having been executed
EmptyCompletionEndedInError ==
    /\ pc = "done"
    /\ last_content = C_empty
    /\ last_executed = None
    /\ store_calls = 2
    /\ llm_calls = 1
    /\ Len(query_results) = 1
    /\ query_results[1].error = UnsafeDetail
    /\ response = HttpError(500, AllFailedDetail)

(***************************************************************************)
(* Properties of the recorded results.                                     *)
(***************************************************************************)
\* C30: a successful QueryResult is appended only by the attempt that was
\* accepted, and it records that attempt: its sql is the statement handed
\* to db_mcp_tool in that step, which is the completion rewritten by
\* normalization and limit enforcement, its rows are the rows that call
\* returned and total_rows is their number; the results recorded before
\* are left as they are.  For a simple question the debug_sql of the
\* response is that recorded sql.
AcceptedResultIsWhatRan ==
    [][ /\ ( /\ Len(query_results') = Len(query_results) + 1
             /\ query_results'[Len(query_results')].error = NoError ) =>
              LET accepted == query_results'[Len(query_results')]
              IN /\ pc = "execute"
                 /\ accepted.sql = last_executed'
                 /\ accepted.sql = sql
                 /\ accepted.sql = CandidateOf[last_content]
                 /\ last_returned'.kind = "rows"
                 /\ accepted.rows = last_returned'.rows
                 /\ accepted.total_rows = last_returned'.rows.n
                 /\ SubSeq(query_results', 1, Len(query_results)) = query_results
        /\ (pc = "narrate" /\ Len(plan) = 1) =>
              /\ query_results' = query_results
              /\ response'.debug_sql = query_results[1].sql
              /\ response'.debug_sql = last_executed
      ]_vars

\* a simple question was answered from the second attempt, the statement
\* of the first one having been rejected for its rows
AnsweredFromSecondAttempt ==
    /\ pc = "done"
    /\ Len(plan) = 1
    /\ response.kind = "answer"
    /\ store_calls = 6
    /\ last_content = C_sum
    /\ query_results[1].sql = CandidateOf[C_sum]
    /\ query_results[1].rows = [n |-> MAX_ROWS, w |-> MAX_COLS]
    /\ query_results[1].total_rows = MAX_ROWS
    /\ response.debug_sql = CandidateOf[C_sum]

(***************************************************************************)
(* Further properties of the Retry Controller and of run_agent.            *)
(***************************************************************************)
\* C31: an execution that returns no rows is accepted in that attempt,
\* whatever the shape of the statement and however many columns it
\* selects: the columns are counted on the first row, and count as 0
\* when there is none.
EmptyResultAccepted ==
    [][ ( /\ pc = "execute"
          /\ last_returned'.kind = "rows"
          /\ last_returned'.rows.n = 0 )
        => /\ Len(query_results') = Len(query_results) + 1
           /\ LET accepted == query_results'[Len(query_results')]
              IN /\ accepted.error = NoError
                 /\ accepted.sql = sql
                 /\ accepted.total_rows = 0
                 /\ accepted.rows = NoRows
           /\ previous_sql' = None
           /\ previous_issue' = NoIssue
      ]_vars

\* a statement without aggregation that selects more than MAX_COLS columns
\* returned no rows on the third attempt and was accepted
WideEmptyResultAccepted ==
    /\ last_returned = [kind |-> "rows", rows |-> NoRows, width |-> MaxTableCols]
    /\ ~ShapeOf[last_executed].has_aggregate
    /\ store_calls = 9
    /\ Len(query_results) = 1
    /\ query_results[1].error = NoError
    /\ query_results[1].sql = last_executed
    /\ query_results[1].total_rows = 0

\* C32: run_agent answers with the fallback notice of build_answer only in
\* a request that has an accepted PlanItem; the second half of run_agent is
\* never entered with a simple plan whose only result is a failure, so the
\* branch that raises for it is not taken.
FallbackNoticeNeedsAcceptedItem ==
    /\ (pc = "narrate" /\ Len(plan) = 1) => query_results[1].error = NoError
    /\ pc = "narrate" => \E k \in DOMAIN query_results : query_results[k].error = NoError
    /\ (pc = "done" /\ response.kind = "answer" /\ response.answer =
            "Os dados foram consultados no banco com sucesso, mas o módulo de IA que gera a resposta em linguagem natural não está disponível no momento. Tente novamente mais tarde.")
       => /\ Len(query_results) = Len(plan)
          /\ \E k \in DOMAIN query_results :
                /\ query_results[k].error = NoError
                /\ query_results[k].sql # None
    /\ (pc = "done" /\ Len(query_results) > 0
          /\ \A k \in DOMAIN query_results : query_results[k].error # NoError)
       => response.kind = "http_error"

\* a report in which only the third item was accepted was answered with
\* the notice
NoticeAfterOneAcceptedItem ==
    /\ pc = "done"
    /\ Len(plan) = 3
    /\ response = AgentResponse(build_answer, None)
    /\ query_results[1].error = UnsafeDetail
    /\ query_results[2].error = ExhaustedDetail
    /\ query_results[3].error = NoError

(***************************************************************************)
(* Properties of the ingestion watcher.                                    *)
(***************************************************************************)
\* C33: the watcher passes a file to run_etl_for_file only if no job with
\* status 'success' is recorded for its name, and only if it has not
\* already passed that file in the same poll.
SucceededFileNeverPassedAgain ==
    [][(etl_pc = "loop" /\ etl_pc' = "read")
        => /\ \A k \in DOMAIN etl_jobs :
                etl_jobs[k].arquivo_nome = job'.arquivo_nome => etl_jobs[k].status # "success"
           /\ \A k \in DOMAIN passed : passed[k] # job'.arquivo_nome
           /\ passed' = Append(passed, job'.arquivo_nome)]_vars

\* in the second poll, with the success of a.xlsx recorded by the first
\* and both files in the directory, only vazio.xlsx was passed
SecondPollSkipsImportedFile ==
    /\ polls = 2
    /\ etl_pc = "read"
    /\ inbox = {"a.xlsx", "vazio.xlsx"}
    /\ passed = <<"vazio.xlsx">>
    /\ novos = {}
    /\ \E k \in DOMAIN etl_jobs :
          /\ etl_jobs[k].arquivo_nome = "a.xlsx"
          /\ etl_jobs[k].status = "success"
    /\ faturamento["a.xlsx"] = 2

\* C34: every step that leaves run_etl_for_file has written exactly one
\* etl_jobs row for the file, 'success' exactly when no step of the try
\* block raised and 'fail' with the error message otherwise.
EveryInvocationRecordsOneJob ==
    [][(etl_pc \in {"read", "columns", "insert", "commit", "record"}
          /\ etl_pc' \in {"loop", "sleep"})
        => /\ Len(etl_jobs') = Len(etl_jobs) + 1
           /\ etl_jobs'[Len(etl_jobs')].arquivo_nome = job.arquivo_nome
           /\ etl_jobs'[Len(etl_jobs')].status = job.status_job
           /\ etl_jobs'[Len(etl_jobs')].error_message = job.error_message
           /\ (job.status_job = "success") = (job.error_message = "None")]_vars

\* C35: when a job with status 'fail' is written, the billing table holds
\* no row of its file and the job's rows_imported is 0.
FailedJobLeavesNoRows ==
    [][(etl_pc = "record" /\ Len(etl_jobs') = Len(etl_jobs) + 1
          /\ etl_jobs'[Len(etl_jobs')].status = "fail")
        => /\ etl_jobs'[Len(etl_jobs')].rows_imported = 0
           /\ faturamento'[etl_jobs'[Len(etl_jobs')].arquivo_nome] = 0]_vars

(***************************************************************************)
(* Properties of the batch runner.                                         *)
(***************************************************************************)
\* C36: utils.run_queries returns one result per query, in the order of
\* the list; a query that fails the safety check is not executed and has
\* an error and no rows; every other query is executed once, whatever
\* happened to the queries before it, and has an error and no rows when
\* its execution raised or its rows have more than MAX_COLS columns, and
\* the returned rows otherwise.
BatchRunIsolatesFailures ==
    bq_pc = "returned" =>
        /\ Len(bq_results) = Len(bq_queries)
        /\ \A i \in DOMAIN bq_queries :
            LET q == bq_queries[i]
                r == bq_results[i]
                runs == {k \in DOMAIN bq_executed : bq_executed[k][1] = i}
            IN /\ r.id = q.id
               /\ r.sql = q.sql
               /\ IF ~utils_is_safe_sql(utils_enforce_sql_limits(q.sql))
                  THEN /\ runs = {}
                       /\ r.rows = NoRows
                       /\ r.error = <<"SQL insegura (não começa com SELECT).">>
                  ELSE /\ Cardinality(runs) = 1
                       /\ \A k \in runs :
                            LET out == bq_executed[k][3]
                            IN /\ bq_executed[k][2] = utils_enforce_sql_limits(q.sql)
                               /\ out.kind = "raised"
                                    => r.rows = NoRows /\ r.error # None
                               /\ (out.kind = "rows" /\ out.rows.n > 0 /\ out.width > CONFIG_MAX_COLS)
                                    => r.rows = NoRows /\ r.error # None
                               /\ (out.kind = "rows" /\ (out.rows.n = 0 \/ out.width <= CONFIG_MAX_COLS))
                                    => r.rows = out.rows /\ r.error = None
        /\ \A k \in DOMAIN bq_executed : k > 1 => bq_executed[k - 1][1] < bq_executed[k][1]

\* a list of three was returned: the first query raised, the second was
\* unsafe, and the third ran and kept its row
ThirdQueryRanAfterTwoFailures ==
    /\ bq_pc = "returned"
    /\ Len(bq_queries) = 3
    /\ Len(bq_results) = 3
    /\ bq_results[1].error = <<"Erro ao executar SQL: ", "<exception>">>
    /\ bq_results[2].error = <<"SQL insegura (não começa com SELECT).">>
    /\ bq_results[3].error = None
    /\ bq_results[3].rows.n = 1
    /\ Len(bq_executed) = 2

====
